---- MODULE Spec2Model ----
(***************************************************************************)
(* A model of panamax's rustup mirror synchronisation (src/src/rustup.rs): *)
(* the coordinator sync, the channel stage sync_rustup_channel, the        *)
(* installer stage sync_rustup_init, the worker pool of a download batch,  *)
(* the progress channel, the per-channel history and clean_old_files.      *)
(*                                                                         *)
(* Strings are sequences of one-character strings, so that slicing,        *)
(* trimming, containment, suffix tests and lexical order are computed.     *)
(* A path on disk is a sequence of components (each a string).             *)
(* Option<T> is a set: None is {}, Some(x) is {x}.                         *)
(***************************************************************************)
EXTENDS Integers, Sequences, FiniteSets, TLC

\* ------------------------------------------------------------------ bounds

\* Largest download_threads the configuration is drawn from (at least 1).
MaxThreads == 2
\* Largest keep-count sync's configuration is drawn from.
MaxKeep == 1
\* Largest keep-count clean_old_files is called with when called directly.
MaxKeepClean == 2
\* Largest mirror.retries a fetch called on its own is run with.
MaxRetries == 3

\* ----------------------------------------------------------------- options

None == {}
Some(x) == {x}
IsSome(o) == o # {}
Unwrap(o) == CHOOSE x \in o : TRUE

\* ----------------------------------------------------------------- strings

Slash == "/"

\* s[n..] of a String (the caller guarantees n <= Len(s)).
SliceFrom(s, n) == SubSeq(s, n + 1, Len(s))

\* str::trim_start_matches('/')
RECURSIVE TrimStartSlash(_)
TrimStartSlash(s) ==
  IF s # <<>> /\ Head(s) = Slash THEN TrimStartSlash(Tail(s)) ELSE s

\* str::contains(sub)
Contains(s, sub) ==
  \E i \in 1..(Len(s) - Len(sub) + 1) : SubSeq(s, i, i + Len(sub) - 1) = sub

\* str::ends_with(suf)
EndsWith(s, suf) ==
  /\ Len(s) >= Len(suf)
  /\ SubSeq(s, Len(s) - Len(suf) + 1, Len(s)) = suf

\* The components of a path string: split at '/', empty components dropped
\* (Path::join of a relative string, then Path::components).
RECURSIVE SplitFrom(_, _, _)
SplitFrom(s, i, acc) ==
  IF i > Len(s)
    THEN IF acc = <<>> THEN <<>> ELSE <<acc>>
    ELSE IF s[i] = Slash
      THEN (IF acc = <<>> THEN <<>> ELSE <<acc>>) \o SplitFrom(s, i + 1, <<>>)
      ELSE SplitFrom(s, i + 1, Append(acc, s[i]))
Components(s) == SplitFrom(s, 1, <<>>)

\* The string of a relative path: its components joined by '/'.
RECURSIVE JoinPath(_)
JoinPath(p) ==
  IF p = <<>> THEN <<>>
  ELSE IF Len(p) = 1 THEN p[1]
  ELSE p[1] \o <<Slash>> \o JoinPath(Tail(p))

\* The byte of a character, for the characters that occur in history keys.
Code(c) ==
  CASE c = "-" -> 45
    [] c = "0" -> 48 [] c = "1" -> 49 [] c = "2" -> 50 [] c = "3" -> 51
    [] c = "4" -> 52 [] c = "5" -> 53 [] c = "6" -> 54 [] c = "7" -> 55
    [] c = "8" -> 56 [] c = "9" -> 57
    [] OTHER -> 97

\* a < b in String's Ord: byte-wise lexicographic, a proper prefix is less.
RECURSIVE LexLess(_, _)
LexLess(a, b) ==
  IF b = <<>> THEN FALSE
  ELSE IF a = <<>> THEN TRUE
  ELSE IF Code(Head(a)) # Code(Head(b)) THEN Code(Head(a)) < Code(Head(b))
  ELSE LexLess(Tail(a), Tail(b))

\* All orderings of a finite set as sequences (a HashMap's iteration order,
\* a directory's read_dir order).
Perms(S) ==
  {f \in [1..Cardinality(S) -> S] : \A i, j \in 1..Cardinality(S) : i # j => f[i] # f[j]}

RECURSIVE Flatten(_)
Flatten(ss) == IF ss = <<>> THEN <<>> ELSE Head(ss) \o Flatten(Tail(ss))

Range(s) == {s[i] : i \in DOMAIN s}

\* ------------------------------------------------------------------ names

S_dist == <<"d", "i", "s", "t">>
S_rustup == <<"r", "u", "s", "t", "u", "p">>
S_stable == <<"s", "t", "a", "b", "l", "e">>
S_beta == <<"b", "e", "t", "a">>
S_nightly == <<"n", "i", "g", "h", "t", "l", "y">>
S_part == <<".", "p", "a", "r", "t">>
S_sha256 == <<".", "s", "h", "a", "2", "5", "6">>
S_toml == <<".", "t", "o", "m", "l">>

ChannelNames == <<"stable", "beta", "nightly">>
Channels == {"stable", "beta", "nightly"}
Stages == {"init"} \cup Channels

ChanStr(ch) ==
  CASE ch = "stable" -> S_stable [] ch = "beta" -> S_beta [] OTHER -> S_nightly


\* ------------------------------------------------------- platform tables

\* The platform tables, abbreviated to one short name each.
P_lx == <<"l", "x">>
P_win == <<"w", "n">>
PLATFORMS == <<P_lx>>
PLATFORMS_EXE == <<P_win>>

get_platforms(target_platform) ==
  IF IsSome(target_platform)
    THEN IF Unwrap(target_platform) \in Range(PLATFORMS)
           THEN <<Unwrap(target_platform)>> ELSE <<>>
    ELSE PLATFORMS

get_platforms_exe(target_platform) ==
  IF IsSome(target_platform)
    THEN IF Unwrap(target_platform) \in Range(PLATFORMS_EXE)
           THEN <<Unwrap(target_platform)>> ELSE <<>>
    ELSE PLATFORMS_EXE

S_rustup_init == <<"r", "u", "s", "t", "u", "p", "-", "i", "n", "i", "t">>
S_exe == <<".", "e", "x", "e">>

\* sync_one_init's local_path, relative to the mirror root, as a batch item.
InitItem(platform, is_exe) ==
  [path |-> S_rustup \o <<Slash>> \o S_dist \o <<Slash>> \o platform \o <<Slash>>
            \o (IF is_exe THEN S_rustup_init \o S_exe ELSE S_rustup_init),
   hash |-> "sha256-file"]

InitItems(target_platform) ==
  [i \in 1..Len(get_platforms(target_platform)) |->
      InitItem(get_platforms(target_platform)[i], FALSE)]
  \o [i \in 1..Len(get_platforms_exe(target_platform)) |->
      InitItem(get_platforms_exe(target_platform)[i], TRUE)]

\* ------------------------------------------------------------ the remote

\* rustup.source
Source == <<"s", ":", "/", "/", "m">>

D_old == <<"2", "0", "2", "2", "-", "1", "2", "-", "0", "1">>
D_mid == <<"2", "0", "2", "3", "-", "0", "1", "-", "0", "1">>
D_new == <<"2", "0", "2", "3", "-", "0", "6", "-", "0", "1">>

S_gz == <<".", "g", "z">>
S_xz == <<".", "x", "z">>

\* The name of an artifact of a channel for a platform: "<c>-<platform>".
ArtName(ch, platform) == <<Head(ChanStr(ch)), "-">> \o platform

\* "dist/<date>/<name><ext>"
DistStr(date, name, ext) ==
  S_dist \o <<Slash>> \o date \o <<Slash>> \o name \o ext

UrlOf(rel) == Source \o <<Slash>> \o rel

\* A target entry of a manifest that carries its four url/hash fields.
TargetWithUrls(ch, date, platform, available) ==
  [name |-> platform, available |-> available,
   target_urls |-> Some([url |-> UrlOf(DistStr(date, ArtName(ch, platform), S_gz)),
                         hash |-> "h-gz",
                         xz_url |-> UrlOf(DistStr(date, ArtName(ch, platform), S_xz)),
                         xz_hash |-> "h-xz"])]

\* A target entry without them (serde's flatten leaves target_urls None).
TargetNoUrls(platform, available) ==
  [name |-> platform, available |-> available, target_urls |-> None]

\* The manifest the remote serves for a channel: one package with one
\* available target and one unavailable target.
RemoteManifest(ch) ==
  [manifest_version |-> "2",
   date |-> D_new,
   pkg |-> {[name |-> "rust", version |-> "1",
             target |-> {TargetWithUrls(ch, D_new, P_lx, TRUE),
                         TargetNoUrls(P_win, FALSE)}]}]

\* A manifest whose unavailable target still carries its four url/hash
\* fields.
RemoteManifestStale(ch) ==
  [manifest_version |-> "2",
   date |-> D_new,
   pkg |-> {[name |-> "rust", version |-> "1",
             target |-> {TargetWithUrls(ch, D_new, P_lx, TRUE),
                         TargetWithUrls(ch, D_new, P_win, FALSE)}]}]

\* A manifest in which two packages name the same artifacts (a package and
\* its -preview alias).
RemoteManifestShared(ch) ==
  [manifest_version |-> "2",
   date |-> D_new,
   pkg |-> {[name |-> "rust", version |-> "1",
             target |-> {TargetWithUrls(ch, D_new, P_lx, TRUE)}],
            [name |-> "rust-preview", version |-> "1",
             target |-> {TargetWithUrls(ch, D_new, P_lx, TRUE)}]}]

\* What the source serves when sync is run, and when a stage is called on
\* its own.
SyncRemotes == {[ch \in Channels |-> RemoteManifest(ch)]}
StageRemotes ==
  SyncRemotes \cup {[ch \in Channels |-> RemoteManifestStale(ch)],
                    [ch \in Channels |-> RemoteManifestShared(ch)]}

\* ------------------------------------------------------ manifest resolver

\* url[source.len()..].trim_start_matches('/')
RelOfUrl(url, source) == TrimStartSlash(SliceFrom(url, Len(source)))

\* The closure of rustup_download_list for one target.
TargetFiles(target, source) ==
  IF target.target_urls = None THEN <<>>
  ELSE LET urls == Unwrap(target.target_urls)
       IN  << <<RelOfUrl(urls.url, source), urls.hash>>,
              <<RelOfUrl(urls.xz_url, source), urls.xz_hash>> >>

\* All concatenations that take one sequence of each set, in order.
RECURSIVE ConcatChoices(_)
ConcatChoices(ss) ==
  IF ss = <<>> THEN {<<>>}
  ELSE {a \o b : a \in Head(ss), b \in ConcatChoices(Tail(ss))}

\* The lists one package may yield: its targets in any HashMap order.
PkgFiles(pkg, source) ==
  {Flatten([i \in 1..Cardinality(pkg.target) |-> TargetFiles(ord[i], source)]) :
     ord \in Perms(pkg.target)}

\* The lists rustup_download_list may return for a parsed manifest.
rustup_download_list(channel, source) ==
  UNION {ConcatChoices([i \in 1..Cardinality(channel.pkg) |-> PkgFiles(ord[i], source)]) :
           ord \in Perms(channel.pkg)}

\* files.into_iter().filter(|x| x.0.contains(target_platform)) and
\* .filter(|x| x.0.ends_with(target_extension)), each applied when set.
RECURSIVE FilterSeq(_, _, _)
FilterSeq(fs, target_platform, target_extension) ==
  IF fs = <<>> THEN <<>>
  ELSE (IF /\ (IsSome(target_platform) => Contains(Head(fs)[1], Unwrap(target_platform)))
           /\ (IsSome(target_extension) => EndsWith(Head(fs)[1], Unwrap(target_extension)))
          THEN <<Head(fs)>> ELSE <<>>)
       \o FilterSeq(Tail(fs), target_platform, target_extension)

\* The batch items of a file list.
ItemsOf(fs) == [i \in 1..Len(fs) |-> [path |-> fs[i][1], hash |-> fs[i][2]]]


\* ------------------------------------------------------------ mirror tree

S_channel_rust == <<"c", "h", "a", "n", "n", "e", "l", "-", "r", "u", "s", "t", "-">>
S_release == <<"r", "e", "l", "e", "a", "s", "e", "-">>
S_mirror == <<"m", "i", "r", "r", "o", "r", "-">>
S_history == <<"-", "h", "i", "s", "t", "o", "r", "y">>

\* append_to_path(path, suffix)
append_to_path(s, suffix) == s \o suffix

\* "dist/channel-rust-<channel>.toml"
ChannelPathStr(ch) == S_dist \o <<Slash>> \o S_channel_rust \o ChanStr(ch) \o S_toml
\* "rustup/release-<channel>.toml"
ReleasePathStr(ch) == S_rustup \o <<Slash>> \o S_release \o ChanStr(ch) \o S_toml
\* "mirror-<channel>-history.toml"
HistoryPathStr(ch) == S_mirror \o ChanStr(ch) \o S_history \o S_toml

\* The paths sync_rustup_channel and get_channel_history build per channel.
ChannelPaths ==
  [ch \in Channels |->
     [channel |-> Components(ChannelPathStr(ch)),
      channel_part |-> Components(append_to_path(ChannelPathStr(ch), S_part)),
      release |-> Components(ReleasePathStr(ch)),
      release_part |-> Components(append_to_path(ReleasePathStr(ch), S_part)),
      history |-> Components(HistoryPathStr(ch))]]

channel_path(ch) == ChannelPaths[ch].channel
channel_part_path(ch) == ChannelPaths[ch].channel_part
release_path(ch) == ChannelPaths[ch].release
release_part_path(ch) == ChannelPaths[ch].release_part
channel_history_path(ch) == ChannelPaths[ch].history

\* The .sha256 sibling of a path.
Sha256Of(p) == [p EXCEPT ![Len(p)] = append_to_path(p[Len(p)], S_sha256)]

\* HashMap::new()
EmptyMap == [d \in {} |-> <<>>]
\* A faulty insert: the other keys are dropped.
MapInsertAlone(m, key, value) == [d \in {key} |-> value]

\* HashMap::insert(key, value)
MapInsert(m, key, value) ==
  [d \in DOMAIN m \cup {key} |-> IF d = key THEN value ELSE m[d]]

\* ------------------------------------------------------------------ state

VARIABLES
  top,             \* the function that was called: sync, or one of its parts
  rustup,          \* the RustupSection of the configuration
  pc,              \* where the coordinating thread is
  cur,             \* the stage sync is at: init, stable, beta, nightly, retention
  failures,        \* sync's run-level failure flag
  result,          \* what each stage returned
  batchLog,        \* per stage, what its batch ended with (read at the load)
  disk,            \* the files under the mirror root, as component paths
  hist,            \* the versions table held by each channel's history file
  histAtCall,      \* the history files when the stage at hand was entered
  diskAtCall,      \* the files under the mirror root at that time
  run,             \* how many times the stage called on its own was entered
  remote,          \* the manifest the source serves for each channel
  published,       \* the release date of the manifest at each channel's final path
  date,            \* sync_rustup_channel's date
  files,           \* the batch's items
  next,            \* the next item the dispatch loop hands to the pool
  queue,           \* the jobs handed to the pool and not yet taken
  worker,          \* per pool thread, the item it runs (0: idle)
  itemPc,          \* per item, where its closure is
  takes,           \* per item, how many times a pool thread took it
  attempts,        \* per item, how many times its fetch ran
  failedItems,     \* the items whose fetch returned an error
  errors_occurred, \* the shared AtomicUsize
  chan,            \* every message sent on the progress channel, in order
  pbRecv,          \* how many of them the reporter has received
  pbExited,        \* the reporter thread has finished
  cleanCalled,     \* clean_old_files was invoked
  cleanKeep,       \* its keep_stables, keep_betas, keep_nightlies
  files_to_keep,   \* its keep-set
  files_to_delete, \* the files its walk selected
  swept,           \* the selected files the sweep has been through
  deleted,         \* the paths remove_file removed
  unremoved,       \* the selected files remove_file failed on
  histRead,        \* the channels whose history it loaded
  cleanResult,     \* what it returned
  locked,          \* the files of the disk that remove_file cannot remove
  fetchCall,       \* the arguments sync_one_rustup_target was called with
  fetchReq,        \* the arguments it calls download with
  fetchPc,         \* where that download is
  fetchTries,      \* the attempts download has started
  fetchWhy,        \* why its last attempt failed
  part,            \* what the .part sibling of the destination holds
  content,         \* what the destination and another artifact hold
  fetchResult      \* what sync_one_rustup_target returned

fetchVars == <<fetchCall, fetchReq, fetchPc, fetchTries, fetchWhy, part, content,
               fetchResult>>
\* What sync, its stages and clean_old_files leave as it is: the
\* configuration, the state of a fetch called on its own, and (but for the
\* rename that publishes it) the manifest at a channel's final path.
cfgVars == <<top, rustup, locked, remote, fetchVars, published>>
coordVars == <<cur, failures, result, batchLog>>
fsVars == <<disk, hist>>
atCall == <<histAtCall, diskAtCall, run>>
callVars == <<atCall, date>>
batchVars == <<files, next, queue, worker, itemPc, takes, attempts, failedItems,
               errors_occurred>>
pbVars == <<chan, pbRecv, pbExited>>
cleanVars == <<cleanCalled, cleanKeep, files_to_keep, files_to_delete, swept,
               deleted, unremoved, histRead, cleanResult>>
vars == <<top, rustup, pc, cur, failures, result, batchLog, disk, hist, histAtCall,
          diskAtCall, run, remote, date,
          files, next, queue, worker, itemPc, takes, attempts, failedItems,
          errors_occurred, chan, pbRecv, pbExited, cleanCalled, cleanKeep,
          files_to_keep, files_to_delete, swept, deleted, unremoved, histRead,
          cleanResult, locked, published, fetchCall, fetchReq, fetchPc, fetchTries, fetchWhy,
          part, content, fetchResult>>

KeepOf(ch) ==
  CASE ch = "stable" -> rustup.keep_latest_stables
    [] ch = "beta" -> rustup.keep_latest_betas
    [] OTHER -> rustup.keep_latest_nightlies

\* A channel's history file: whether it is there, and its table.
HistoryFile(ch) ==
  [exists |-> channel_history_path(ch) \in disk, versions |-> hist[ch]]
HistoryFiles == [ch \in Channels |-> HistoryFile(ch)]

Pending == [tag |-> "pending", n |-> 0]
Skipped == [tag |-> "skipped", n |-> 0]
Ok == [tag |-> "Ok", n |-> 0]
Err(tag) == [tag |-> tag, n |-> 0]
FailedDownloads(count) == [tag |-> "FailedDownloads", n |-> count]
IsErr(r) == r.tag \in {"Download", "Parse", "Io", "FailedDownloads"}


\* ------------------------------------------------------------ first state

KeepChoices(max) == {None} \cup {Some(n) : n \in 0..max}

\* An artifact of an earlier release of a channel, and its path string.
OldStr(ch) == DistStr(D_old, ArtName(ch, P_lx), S_gz)

\* A mirror on which the channels `chs` were synced once at D_old (one
\* artifact each, manifest published, history written) and the others
\* never, with the files `extra` beside them.
Mirror(chs, extra) ==
  [disk |-> extra \cup
            UNION {{Components(OldStr(ch)), channel_path(ch), Sha256Of(channel_path(ch)),
                    channel_history_path(ch)} : ch \in chs},
   hist |-> [ch \in Channels |->
               IF ch \in chs THEN MapInsert(EmptyMap, D_old, <<OldStr(ch)>>)
                             ELSE EmptyMap]]

S_doc == <<"d", "o", "c">>
S_notes == <<"n", "o", "t", "e", "s">>

\* The mirror sync is run on: stable and beta synced before, nightly never,
\* and a documentation directory left under dist/<D_old>/.
SyncMirrors == {Mirror({"stable", "beta"}, {<<S_dist, D_old, S_doc, S_notes>>})}
\* The mirrors a stage called on its own is run on.
StageMirrors == {Mirror({}, {}), Mirror(Channels, {})}

\* The (target_platform, target_extension) pairs sync is run with, and the
\* ones a stage called on its own is run with.
SyncFilters == {<<Some(P_lx), Some(S_xz)>>}
StageFilters == {<<None, None>>, <<Some(P_lx), Some(S_xz)>>, <<Some(P_win), None>>,
                 <<None, Some(S_xz)>>}

Configurations(filters, keeps) ==
  {[source |-> Source,
    target_platform |-> f[1],
    target_extension |-> f[2],
    download_threads |-> t,
    keep_latest_stables |-> ks,
    keep_latest_betas |-> kb,
    keep_latest_nightlies |-> kn] :
      f \in filters, t \in {1, MaxThreads}, ks \in keeps, kb \in keeps, kn \in keeps}

\* No batch, no progress bar, no call of clean_old_files.
NoBatch ==
  /\ files = <<>> /\ next = 1 /\ queue = <<>>
  /\ itemPc = <<>> /\ takes = <<>> /\ attempts = <<>>
  /\ failedItems = {} /\ errors_occurred = 0
  /\ chan = <<>> /\ pbRecv = 0 /\ pbExited = TRUE
NoClean ==
  /\ cleanCalled = FALSE
  /\ files_to_keep = {} /\ files_to_delete = {} /\ swept = {}
  /\ deleted = {} /\ unremoved = {} /\ histRead = {} /\ cleanResult = Pending

\* The arguments of sync_one_rustup_target, with what its destination held
\* before the call.
FetchArgs(url, hash, retries, prior) ==
  [url |-> url, hash |-> hash, retries |-> retries, prior |-> prior]
NoArgs == FetchArgs(<<>>, "", 0, None)
\* The arguments of download.
DownloadArgs(url, path, hash, retries, force_download) ==
  [url |-> url, path |-> path, hash |-> hash, retries |-> retries,
   force_download |-> force_download]
NoRequest == DownloadArgs(<<>>, <<>>, None, 0, FALSE)

\* No fetch is called on its own.
NoFetch ==
  /\ fetchCall = NoArgs /\ fetchReq = NoRequest
  /\ fetchPc = "idle" /\ fetchTries = 0 /\ fetchWhy = "none"
  /\ part = None /\ content = <<>> /\ fetchResult = Pending

\* Nothing has run yet.
\* The manifests at the final paths of a mirror that was synced before are
\* those of the earlier release.
PublishedAtStart ==
  [ch \in Channels |-> IF channel_path(ch) \in disk THEN Some(D_old) ELSE None]

FreshRun ==
  /\ failures = FALSE
  /\ published = PublishedAtStart
  /\ result = [s \in Stages \cup {"sync"} |-> Pending]
  /\ batchLog = [s \in Stages |-> None]
  /\ histAtCall = HistoryFiles /\ diskAtCall = disk /\ run = 1 /\ date = <<>>
  /\ worker = [w \in 1..rustup.download_threads |-> 0]
  /\ NoBatch /\ NoClean
Fresh == FreshRun /\ NoFetch

\* sync is entered.
Init ==
  /\ top = "sync"
  /\ rustup \in Configurations(SyncFilters, KeepChoices(MaxKeep))
  /\ \E m \in SyncMirrors : disk = m.disk /\ hist = m.hist
  /\ locked = {}
  /\ remote \in SyncRemotes
  /\ pc = "call_init" /\ cur = "init"
  /\ cleanKeep = [ch \in Channels |-> None]
  /\ Fresh

\* Neither filter is set. (The manifest with two targets that carry urls is
\* served to filtered runs, whose batches have two items.)
Unfiltered == rustup.target_platform = None /\ rustup.target_extension = None

\* sync_rustup_init or sync_rustup_channel is entered, called on its own.
InitStage ==
  /\ top = "stage"
  /\ rustup \in Configurations(StageFilters, {None})
  /\ \E m \in StageMirrors : disk = m.disk /\ hist = m.hist
  /\ locked = {}
  /\ remote \in StageRemotes
  /\ Unfiltered => remote \in SyncRemotes
  /\ cur \in Stages
  /\ pc = IF cur = "init" THEN "call_init" ELSE "dl_manifest"
  /\ cleanKeep = [ch \in Channels |-> None]
  /\ Fresh

\* -------------------------------------------------------- download batch

\* progress_bar(Some(count), prefix), AtomicUsize::new(0), Pool::new(threads):
\* a batch over `items` starts.
StartBatch(items) ==
  /\ files' = items
  /\ next' = 1
  /\ queue' = <<>>
  /\ worker' = [w \in 1..rustup.download_threads |-> 0]
  /\ itemPc' = [i \in 1..Len(items) |-> "new"]
  /\ takes' = [i \in 1..Len(items) |-> 0]
  /\ attempts' = [i \in 1..Len(items) |-> 0]
  /\ failedItems' = {}
  /\ errors_occurred' = 0
  /\ chan' = <<>> /\ pbRecv' = 0 /\ pbExited' = FALSE

\* A faulty DispatchDone: the loop gives up once a failure was counted.
DispatchDoneFailFast == next > Len(files) \/ errors_occurred > 0

\* The for loop over the items has handed every one of them to the pool.
DispatchDone == next > Len(files)

\* scoped.execute(closure) for the next item.
Dispatch ==
  /\ pc = "dispatch" /\ ~DispatchDone
  /\ queue' = Append(queue, next)
  /\ itemPc' = [itemPc EXCEPT ![next] = "queued"]
  /\ next' = next + 1
  /\ UNCHANGED <<pc, cfgVars, coordVars, fsVars, callVars, pbVars, cleanVars,
                 files, worker, takes, attempts, failedItems, errors_occurred>>

\* A faulty PoolJoined: the scope does not wait for its jobs.
PoolNotJoined == TRUE

\* Every job handed to the pool has run to its end (the scope's join).
PoolJoined == queue = <<>> /\ \A w \in DOMAIN worker : worker[w] = 0

\* Pool::scoped returns.
PoolJoin ==
  /\ pc = "dispatch" /\ DispatchDone /\ PoolJoined
  /\ pc' = "send_done"
  /\ UNCHANGED <<cfgVars, coordVars, fsVars, callVars, batchVars, pbVars, cleanVars>>

\* A pool thread takes the oldest job of the queue.
WorkerTake(w) ==
  /\ worker[w] = 0 /\ queue # <<>>
  /\ worker' = [worker EXCEPT ![w] = Head(queue)]
  /\ queue' = Tail(queue)
  /\ itemPc' = [itemPc EXCEPT ![Head(queue)] = "fetch"]
  /\ takes' = [takes EXCEPT ![Head(queue)] = @ + 1]
  /\ UNCHANGED <<pc, cfgVars, coordVars, fsVars, callVars, pbVars, cleanVars,
                 files, next, attempts, failedItems, errors_occurred>>

Running(w, at) ==
  /\ worker[w] # 0 /\ worker[w] \in DOMAIN itemPc
  /\ itemPc[worker[w]] = at

\* The files a successful fetch of an item leaves: the artifact, and for an
\* installer (download_with_sha256_file) its .sha256 sibling.
FetchedFiles(item) ==
  IF item.hash = "sha256-file"
    THEN {Components(item.path), Sha256Of(Components(item.path))}
    ELSE {Components(item.path)}

\* sync_one_rustup_target / sync_one_init returned Ok.
WorkerFetchOk(w) ==
  /\ Running(w, "fetch")
  /\ attempts' = [attempts EXCEPT ![worker[w]] = @ + 1]
  /\ disk' = disk \cup FetchedFiles(files[worker[w]])
  /\ itemPc' = [itemPc EXCEPT ![worker[w]] = "inc"]
  /\ UNCHANGED <<pc, cfgVars, coordVars, hist, callVars, pbVars, cleanVars,
                 files, next, queue, worker, takes, failedItems, errors_occurred>>

\* It returned Err: the closure sends the Println diagnostic.
WorkerFetchErr(w) ==
  /\ Running(w, "fetch")
  /\ attempts' = [attempts EXCEPT ![worker[w]] = @ + 1]
  /\ failedItems' = failedItems \cup {worker[w]}
  /\ chan' = Append(chan, "Println")
  /\ itemPc' = [itemPc EXCEPT ![worker[w]] = "add"]
  /\ UNCHANGED <<pc, cfgVars, coordVars, fsVars, callVars, cleanVars, pbRecv, pbExited,
                 files, next, queue, worker, takes, errors_occurred>>

\* A faulty FetchAdd: the counter is set, not added to.
FetchAddStore(counter) == 1

\* AtomicUsize::fetch_add(1, Release): one atomic read-modify-write.
FetchAdd(counter) == counter + 1

\* A faulty WorkerFetchAdd: a failed item's closure ends without sending
\* Increment.
WorkerFetchAddNoIncrement(w) ==
  /\ Running(w, "add")
  /\ errors_occurred' = FetchAdd(errors_occurred)
  /\ itemPc' = [itemPc EXCEPT ![worker[w]] = "done"]
  /\ worker' = [worker EXCEPT ![w] = 0]
  /\ UNCHANGED <<pc, cfgVars, coordVars, fsVars, callVars, pbVars, cleanVars,
                 files, next, queue, takes, attempts, failedItems>>

\* error_occurred.fetch_add(1, Ordering::Release)
WorkerFetchAdd(w) ==
  /\ Running(w, "add")
  /\ errors_occurred' = FetchAdd(errors_occurred)
  /\ itemPc' = [itemPc EXCEPT ![worker[w]] = "inc"]
  /\ UNCHANGED <<pc, cfgVars, coordVars, fsVars, callVars, pbVars, cleanVars,
                 files, next, queue, worker, takes, attempts, failedItems>>

\* s.send(ProgressBarMessage::Increment): the closure ends.
WorkerIncrement(w) ==
  /\ Running(w, "inc")
  /\ chan' = Append(chan, "Increment")
  /\ itemPc' = [itemPc EXCEPT ![worker[w]] = "done"]
  /\ worker' = [worker EXCEPT ![w] = 0]
  /\ UNCHANGED <<pc, cfgVars, coordVars, fsVars, callVars, cleanVars, pbRecv, pbExited,
                 files, next, queue, takes, attempts, failedItems, errors_occurred>>

\* sender.send(ProgressBarMessage::Done)
SendDone ==
  /\ pc = "send_done"
  /\ chan' = Append(chan, "Done")
  /\ pc' = "pb_join"
  /\ UNCHANGED <<cfgVars, coordVars, fsVars, callVars, batchVars, cleanVars,
                 pbRecv, pbExited>>

\* The reporter thread receives the next message; Done ends it.
ReporterRecv ==
  /\ ~pbExited /\ pbRecv < Len(chan)
  /\ pbRecv' = pbRecv + 1
  /\ pbExited' = (chan[pbRecv + 1] = "Done")
  /\ UNCHANGED <<pc, cfgVars, coordVars, fsVars, callVars, batchVars, cleanVars, chan>>

\* pb_thread.join() returns once the reporter thread has finished.
ReporterJoined == pbExited

PbJoin ==
  /\ pc = "pb_join" /\ ReporterJoined
  /\ pc' = "load_errors"
  /\ UNCHANGED <<cfgVars, coordVars, fsVars, callVars, batchVars, pbVars, cleanVars>>


\* ------------------------------------------------------------ coordinator

NextStage(s) ==
  CASE s = "init" -> "stable" [] s = "stable" -> "beta"
    [] s = "beta" -> "nightly" [] OTHER -> "retention"

\* A faulty SetsFailures: only a counted download failure sets the flag.
SetsFailuresOnlyCounted(stage, res) ==
  stage \in Channels /\ res.tag = "FailedDownloads"

\* A faulty SetsFailures: the installer stage's error sets the flag too.
SetsFailuresAnyStage(stage, res) == IsErr(res)

\* sync's handling of a stage's result: `failures = true` in the
\* `if let Err(e)` of a channel stage, nothing but diagnostics for the
\* installer stage.
SetsFailures(stage, res) == stage \in Channels /\ IsErr(res)

\* The stage at hand returns `res` to sync; its locals are dropped.
Return(res) ==
  /\ result' = [result EXCEPT ![cur] = res]
  /\ failures' = (failures \/ SetsFailures(cur, res))
  /\ cur' = IF top = "sync" THEN NextStage(cur) ELSE cur
  /\ pc' = IF top = "sync" THEN "gate" ELSE "done"
  /\ date' = <<>>
  /\ files' = <<>> /\ next' = 1 /\ queue' = <<>>
  /\ itemPc' = <<>> /\ takes' = <<>> /\ attempts' = <<>>
  /\ failedItems' = {} /\ errors_occurred' = 0
  /\ chan' = <<>> /\ pbRecv' = 0
  /\ UNCHANGED <<worker, pbExited, atCall>>

\* sync_rustup_init is entered and builds its batch.
SyncRustupInit ==
  /\ pc = "call_init"
  /\ StartBatch(InitItems(rustup.target_platform))
  /\ pc' = "dispatch"
  /\ UNCHANGED <<cfgVars, coordVars, fsVars, callVars, cleanVars>>

\* What the batch ended with, read when the counter is loaded.
BatchSummary ==
  [items |-> Len(files), failed |-> Cardinality(failedItems), errors |-> errors_occurred]

\* A faulty BatchOk: the count is not looked at.
BatchOkAlways(errors) == TRUE

\* `if errors == 0`
BatchOk(errors) == errors = 0

\* errors_occurred.load(Acquire) read zero: sync_rustup_init returns Ok,
\* sync_rustup_channel goes on to commit.
LoadErrorsOk ==
  /\ pc = "load_errors" /\ BatchOk(errors_occurred)
  /\ batchLog' = [batchLog EXCEPT ![cur] = Some(BatchSummary)]
  /\ IF cur = "init"
       THEN Return(Ok)
       ELSE /\ pc' = "add_history"
            /\ UNCHANGED <<cur, failures, result, callVars, batchVars, pbVars>>
  /\ UNCHANGED <<cfgVars, fsVars, cleanVars>>

\* It read a count above zero: Err(SyncError::FailedDownloads(errors)).
LoadErrorsFailed ==
  /\ pc = "load_errors" /\ ~BatchOk(errors_occurred)
  /\ batchLog' = [batchLog EXCEPT ![cur] = Some(BatchSummary)]
  /\ Return(FailedDownloads(errors_occurred))
  /\ UNCHANGED <<cfgVars, fsVars, cleanVars>>

\* A faulty StageRuns: a channel stage is not run after a failed one.
StageRunsUnlessFailed(keep) == keep # Some(0) /\ ~failures

\* A faulty StageRuns: the keep-count is not looked at.
StageRunsAlways(keep) == TRUE

\* `if rustup.keep_latest_<channel>s != Some(0)`
StageRuns(keep) == keep # Some(0)

\* sync calls sync_rustup_channel for the channel at hand.
ChannelCall ==
  /\ pc = "gate" /\ cur \in Channels /\ StageRuns(KeepOf(cur))
  /\ pc' = "dl_manifest"
  /\ histAtCall' = HistoryFiles /\ diskAtCall' = disk
  /\ UNCHANGED run
  /\ UNCHANGED <<cfgVars, coordVars, fsVars, date, batchVars, pbVars, cleanVars>>

\* The channel's keep-count is Some(0): "Skipping syncing <channel>."
ChannelSkip ==
  /\ pc = "gate" /\ cur \in Channels /\ ~StageRuns(KeepOf(cur))
  /\ result' = [result EXCEPT ![cur] = Skipped]
  /\ cur' = NextStage(cur)
  /\ UNCHANGED <<pc, cfgVars, failures, batchLog, fsVars, callVars, batchVars, pbVars,
                 cleanVars>>

\* download_with_sha256_file(channel_url, channel_part_path, ..) returned Ok.
DownloadManifestOk ==
  /\ pc = "dl_manifest"
  /\ disk' = disk \cup {channel_part_path(cur), Sha256Of(channel_part_path(cur))}
  /\ pc' = IF cur = "stable" THEN "dl_release" ELSE "resolve"
  /\ UNCHANGED <<cfgVars, coordVars, hist, callVars, batchVars, pbVars, cleanVars>>

\* It returned Err, which `?` returns.
DownloadManifestErr ==
  /\ pc = "dl_manifest"
  /\ Return(Err("Download"))
  /\ UNCHANGED <<cfgVars, batchLog, fsVars, cleanVars>>

\* download(release_url, release_part_path, None, ..) returned Ok (stable).
DownloadReleaseOk ==
  /\ pc = "dl_release"
  /\ disk' = disk \cup {release_part_path(cur)}
  /\ pc' = "resolve"
  /\ UNCHANGED <<cfgVars, coordVars, hist, callVars, batchVars, pbVars, cleanVars>>

DownloadReleaseErr ==
  /\ pc = "dl_release"
  /\ Return(Err("Download"))
  /\ UNCHANGED <<cfgVars, batchLog, fsVars, cleanVars>>

\* rustup_download_list read and parsed the downloaded manifest; the two
\* filters are applied and the batch is built.
ResolveManifest ==
  /\ pc = "resolve"
  /\ \E fs \in rustup_download_list(remote[cur], rustup.source) :
        StartBatch(ItemsOf(FilterSeq(fs, rustup.target_platform, rustup.target_extension)))
  /\ date' = remote[cur].date
  /\ pc' = "dispatch"
  /\ UNCHANGED <<cfgVars, coordVars, fsVars, atCall, cleanVars>>

\* The manifest could not be read or parsed.
ResolveManifestErr ==
  /\ pc = "resolve"
  /\ Return(Err("Parse"))
  /\ UNCHANGED <<cfgVars, batchLog, fsVars, cleanVars>>

\* get_channel_history(path, channel): the table of the history file, or an
\* empty table when there is no file.
get_channel_history(ch) ==
  IF channel_history_path(ch) \in disk THEN hist[ch] ELSE EmptyMap

\* A faulty add_to_channel_history: the paths the entry held and the batch
\* does not hold are kept after the batch's.
add_to_channel_history_merging(ch, d, fs) ==
  LET versions == get_channel_history(ch)
      paths == [i \in 1..Len(fs) |-> fs[i].path]
      old == IF d \in DOMAIN versions THEN versions[d] ELSE <<>>
  IN  MapInsert(versions, d, paths \o SelectSeq(old, LAMBDA p : p \notin Range(paths)))

\* A faulty add_to_channel_history: the paths are added to the entry that
\* is there.
add_to_channel_history_extending(ch, d, fs) ==
  LET versions == get_channel_history(ch)
      paths == [i \in 1..Len(fs) |-> fs[i].path]
  IN  MapInsert(versions, d, IF d \in DOMAIN versions THEN versions[d] \o paths ELSE paths)

\* The table add_to_channel_history writes back.
add_to_channel_history(ch, d, fs) ==
  MapInsert(get_channel_history(ch), d, [i \in 1..Len(fs) |-> fs[i].path])

\* add_to_channel_history(path, channel, &date, &files) returned Ok.
AddHistoryOk ==
  /\ pc = "add_history"
  /\ hist' = [hist EXCEPT ![cur] = add_to_channel_history(cur, date, files)]
  /\ disk' = disk \cup {channel_history_path(cur)}
  /\ pc' = "publish_manifest"
  /\ UNCHANGED <<cfgVars, coordVars, callVars, batchVars, pbVars, cleanVars>>

\* A faulty AddHistoryErr: the error is dropped and the stage goes on.
AddHistoryErrIgnored ==
  /\ pc = "add_history"
  /\ pc' = "publish_manifest"
  /\ UNCHANGED <<cfgVars, coordVars, fsVars, callVars, batchVars, pbVars, cleanVars>>

\* It returned Err (the history could not be read, parsed, serialized or
\* written).
AddHistoryErr ==
  /\ pc = "add_history"
  /\ Return(Err("Io"))
  /\ UNCHANGED <<cfgVars, batchLog, fsVars, cleanVars>>

\* move_if_exists_with_sha256(channel_part_path, channel_path) returned Ok.
PublishManifestOk ==
  /\ pc = "publish_manifest"
  /\ disk' = (disk \ {channel_part_path(cur), Sha256Of(channel_part_path(cur))})
               \cup {channel_path(cur), Sha256Of(channel_path(cur))}
  /\ published' = [published EXCEPT ![cur] = Some(date)]
  /\ pc' = "publish_release"
  /\ UNCHANGED <<top, rustup, locked, remote, fetchVars, coordVars, hist, callVars,
                 batchVars, pbVars, cleanVars>>

PublishManifestErr ==
  /\ pc = "publish_manifest"
  /\ Return(Err("Io"))
  /\ UNCHANGED <<cfgVars, batchLog, fsVars, cleanVars>>

\* move_if_exists(release_part_path, release_path) returned Ok, having
\* moved the file if there was one; sync_rustup_channel returns Ok.
PublishReleaseOk ==
  /\ pc = "publish_release"
  /\ disk' = IF release_part_path(cur) \in disk
               THEN (disk \ {release_part_path(cur)}) \cup {release_path(cur)}
               ELSE disk
  /\ Return(Ok)
  /\ UNCHANGED <<cfgVars, batchLog, hist, cleanVars>>

\* The move of an existing release file failed.
PublishReleaseErr ==
  /\ pc = "publish_release" /\ release_part_path(cur) \in disk
  /\ Return(Err("Io"))
  /\ UNCHANGED <<cfgVars, batchLog, fsVars, cleanVars>>

\* A faulty RetentionGate: the failure flag is not looked at.
RetentionGateIgnoresFailures(keep_stables, keep_betas, keep_nightlies, failed) ==
  IF keep_stables = None /\ keep_betas = None /\ keep_nightlies = None
    THEN "skip" ELSE "clean"

\* A faulty RetentionGate: one unset keep-count is enough to skip.
RetentionGateAnyUnset(keep_stables, keep_betas, keep_nightlies, failed) ==
  IF keep_stables = None \/ keep_betas = None \/ keep_nightlies = None
    THEN "skip"
    ELSE IF failed THEN "skip_failures" ELSE "clean"

\* The three-way `if` that ends sync.
RetentionGate(keep_stables, keep_betas, keep_nightlies, failed) ==
  IF keep_stables = None /\ keep_betas = None /\ keep_nightlies = None
    THEN "skip"
    ELSE IF failed THEN "skip_failures" ELSE "clean"

GateNow ==
  RetentionGate(rustup.keep_latest_stables, rustup.keep_latest_betas,
                rustup.keep_latest_nightlies, failures)

\* "Skipping cleaning files.": sync returns Ok.
RetentionSkip ==
  /\ pc = "gate" /\ cur = "retention" /\ GateNow # "clean"
  /\ pc' = "sync_end"
  /\ UNCHANGED <<cfgVars, coordVars, fsVars, callVars, batchVars, pbVars, cleanVars>>

\* sync calls clean_old_files with the three keep-counts.
RetentionClean ==
  /\ pc = "gate" /\ cur = "retention" /\ GateNow = "clean"
  /\ cleanCalled' = TRUE
  /\ cleanKeep' = [ch \in Channels |-> KeepOf(ch)]
  /\ pc' = "clean_load"
  /\ UNCHANGED <<cfgVars, coordVars, fsVars, callVars, batchVars, pbVars,
                 files_to_keep, files_to_delete, swept, deleted, unremoved, histRead,
                 cleanResult>>

\* A faulty SyncResult: an error of a stage or of clean_old_files is
\* returned.
SyncResultPropagates(results, cleaned) ==
  IF \E st \in Stages : IsErr(results[st])
    THEN results[CHOOSE st \in Stages : IsErr(results[st])]
    ELSE IF IsErr(cleaned) THEN cleaned ELSE Ok

\* What sync returns after the stages returned `results` and
\* clean_old_files `cleaned`: the `Ok(())` that ends it.
SyncResult(results, cleaned) == Ok

\* "Syncing Rustup repositories complete!": sync returns.
SyncReturn ==
  /\ pc = "sync_end"
  /\ result' = [result EXCEPT !["sync"] = SyncResult(result, cleanResult)]
  /\ pc' = "done"
  /\ UNCHANGED <<cfgVars, cur, failures, batchLog, fsVars, callVars, batchVars, pbVars,
                 cleanVars>>

\* -------------------------------------------------------- clean_old_files

\* Where clean_old_files returns to: into sync, or to its caller.
CleanReturnsTo == IF top = "sync" THEN "sync_end" ELSE "done"

\* dates.sort(): the keys in ascending String order.
RECURSIVE SortAsc(_)
SortAsc(S) ==
  IF S = {} THEN <<>>
  ELSE LET m == CHOOSE x \in S : \A y \in S \ {x} : LexLess(x, y)
       IN  <<m>> \o SortAsc(S \ {m})

\* A faulty Reverse: the order is left ascending.
NotReversed(q) == q

\* dates.reverse()
Reverse(q) == [i \in 1..Len(q) |-> q[Len(q) + 1 - i]]

\* A faulty Truncate: the last n are kept.
TruncateKeepsTail(q, n) == SubSeq(q, (IF n < Len(q) THEN Len(q) - n ELSE 0) + 1, Len(q))

\* dates.truncate(n)
Truncate(q, n) == SubSeq(q, 1, IF n < Len(q) THEN n ELSE Len(q))

latest_dates_from_channel_history(versions, n) ==
  Truncate(Reverse(SortAsc(DOMAIN versions)), n)

\* What one `if let Some(n) = keep_<channel>` block inserts into files_to_keep.
KeptOf(ch, keep) ==
  IF keep = None THEN {}
  ELSE LET versions == get_channel_history(ch)
           latest_dates == latest_dates_from_channel_history(versions, Unwrap(keep))
       IN  UNION {Range(versions[latest_dates[i]]) : i \in 1..Len(latest_dates)}

\* files_to_keep after the three blocks.
FilesToKeep(keep) == UNION {KeptOf(ch, keep[ch]) : ch \in Channels}

\* The three blocks ran: every configured channel's history was loaded.
CleanLoad ==
  /\ pc = "clean_load"
  /\ files_to_keep' = FilesToKeep(cleanKeep)
  /\ histRead' = {ch \in Channels : cleanKeep[ch] # None}
  /\ pc' = "clean_walk"
  /\ UNCHANGED <<cfgVars, coordVars, fsVars, callVars, batchVars, pbVars,
                 cleanCalled, cleanKeep, files_to_delete, swept, deleted, unremoved,
                 cleanResult>>

ChannelIndex(ch) == CHOOSE i \in 1..3 : ChannelNames[i] = ch

\* get_channel_history(..)? failed on the existing history file of a
\* configured channel: clean_old_files returns the error.
CleanLoadErr ==
  /\ pc = "clean_load"
  /\ \E ch \in Channels :
        /\ cleanKeep[ch] # None /\ channel_history_path(ch) \in disk
        /\ histRead' = {c \in Channels :
                          cleanKeep[c] # None /\ ChannelIndex(c) <= ChannelIndex(ch)}
  /\ cleanResult' = Err("Io")
  /\ pc' = CleanReturnsTo
  /\ UNCHANGED <<cfgVars, coordVars, fsVars, callVars, batchVars, pbVars,
                 cleanCalled, cleanKeep, files_to_keep, files_to_delete, swept, deleted,
                 unremoved>>

\* A file name that is not valid UTF-8 (Path::to_str gives None for it).
NotUtf8 == <<"\\xff">>
to_str(p) == IF \E i \in 1..Len(p) : p[i] = NotUtf8 THEN None ELSE Some(JoinPath(p))

\* The directories fs::read_dir(dist_path) yields: the entries of dist
\* that hold something.
DistDirs == {p[2] : p \in {q \in disk : Len(q) >= 3 /\ q[1] = S_dist}}

\* The entries fs::read_dir(dir) yields for such a directory, relative to
\* the mirror root (strip_prefix(path)).
DirEntries(dir) ==
  {SubSeq(p, 1, 3) : p \in {q \in disk : Len(q) >= 3 /\ q[1] = S_dist /\ q[2] = dir}}

\* A faulty FilesToDelete: the walk stops after the first directory.
FilesToDeleteFirstDir(keepSet) ==
  IF DistDirs = {} THEN {}
  ELSE {Unwrap(to_str(e)) :
          e \in {x \in DirEntries(CHOOSE dir \in DistDirs : TRUE) :
                   to_str(x) # None /\ Unwrap(to_str(x)) \notin keepSet}}

\* A faulty FilesToDelete: every unkept file under dist is selected.
FilesToDeleteWholeDist(keepSet) ==
  {Unwrap(to_str(e)) :
     e \in {x \in disk : x[1] = S_dist /\ to_str(x) # None
                           /\ Unwrap(to_str(x)) \notin keepSet}}

\* files_to_delete after the walk.
FilesToDelete(keepSet) ==
  {Unwrap(to_str(e)) :
     e \in {x \in UNION {DirEntries(dir) : dir \in DistDirs} :
              to_str(x) # None /\ Unwrap(to_str(x)) \notin keepSet}}

\* The two-level walk of dist ran, and progress_bar was started.
CleanWalk ==
  /\ pc = "clean_walk"
  /\ \E p \in disk : p[1] = S_dist
  /\ files_to_delete' = FilesToDelete(files_to_keep)
  /\ chan' = <<>> /\ pbRecv' = 0 /\ pbExited' = FALSE
  /\ pc' = "clean_sweep"
  /\ UNCHANGED <<cfgVars, coordVars, fsVars, callVars, batchVars,
                 cleanCalled, cleanKeep, files_to_keep, swept, deleted, unremoved,
                 histRead, cleanResult>>

\* A faulty CleanWalkErr: the walk removed an unkept file before it failed.
CleanWalkErrAfterRemoval ==
  /\ pc = "clean_walk"
  /\ \E f \in FilesToDelete(files_to_keep) :
        /\ Components(f) \in disk \ locked
        /\ disk' = disk \ {Components(f)}
        /\ deleted' = deleted \cup {Components(f)}
  /\ cleanResult' = Err("Io")
  /\ pc' = CleanReturnsTo
  /\ UNCHANGED <<cfgVars, coordVars, hist, callVars, batchVars, pbVars,
                 cleanCalled, cleanKeep, files_to_keep, files_to_delete, swept,
                 unremoved, histRead>>

\* A read_dir or strip_prefix of the walk failed: clean_old_files returns
\* the error.
CleanWalkErr ==
  /\ pc = "clean_walk"
  /\ cleanResult' = Err("Io")
  /\ pc' = CleanReturnsTo
  /\ UNCHANGED <<cfgVars, coordVars, fsVars, callVars, batchVars, pbVars,
                 cleanCalled, cleanKeep, files_to_keep, files_to_delete, swept, deleted,
                 unremoved, histRead>>

\* fs::remove_file can remove the path p: it is a file, and not locked.
Removable(p) == p \in disk /\ p \notin locked

\* The sweep takes a selected file and removes it (path.join(&f)).
CleanRemoveOk ==
  /\ pc = "clean_sweep"
  /\ \E f \in files_to_delete \ swept :
        LET p == Components(f)
        IN  /\ Removable(p)
            /\ disk' = disk \ {p}
            /\ deleted' = deleted \cup {p}
            /\ swept' = swept \cup {f}
  /\ chan' = Append(chan, "Increment")
  /\ UNCHANGED <<pc, cfgVars, coordVars, hist, callVars, batchVars, pbRecv, pbExited,
                 cleanCalled, cleanKeep, files_to_keep, files_to_delete, unremoved,
                 histRead, cleanResult>>

\* A faulty CleanRemoveErr: the failure is reported and returned.
CleanRemoveErrAborts ==
  /\ pc = "clean_sweep"
  /\ \E f \in files_to_delete \ swept :
        /\ ~Removable(Components(f))
        /\ unremoved' = unremoved \cup {f}
        /\ swept' = swept \cup {f}
  /\ chan' = chan \o <<"Println">>
  /\ cleanResult' = Err("Io")
  /\ pc' = CleanReturnsTo
  /\ UNCHANGED <<cfgVars, coordVars, fsVars, callVars, batchVars, pbRecv, pbExited,
                 cleanCalled, cleanKeep, files_to_keep, files_to_delete, deleted,
                 histRead>>

\* remove_file failed: the diagnostic is sent, and the sweep goes on.
CleanRemoveErr ==
  /\ pc = "clean_sweep"
  /\ \E f \in files_to_delete \ swept :
        /\ ~Removable(Components(f))
        /\ unremoved' = unremoved \cup {f}
        /\ swept' = swept \cup {f}
  /\ chan' = chan \o <<"Println", "Increment">>
  /\ UNCHANGED <<pc, cfgVars, coordVars, fsVars, callVars, batchVars, pbRecv, pbExited,
                 cleanCalled, cleanKeep, files_to_keep, files_to_delete, deleted,
                 histRead, cleanResult>>

\* The sweep is over: Done is sent.
CleanSendDone ==
  /\ pc = "clean_sweep" /\ swept = files_to_delete
  /\ chan' = Append(chan, "Done")
  /\ pc' = "clean_join"
  /\ UNCHANGED <<cfgVars, coordVars, fsVars, callVars, batchVars, pbRecv, pbExited,
                 cleanVars>>

\* The reporter is joined and clean_old_files returns Ok.
CleanJoin ==
  /\ pc = "clean_join" /\ ReporterJoined
  /\ cleanResult' = Ok
  /\ pc' = CleanReturnsTo
  /\ UNCHANGED <<cfgVars, coordVars, fsVars, callVars, batchVars, pbVars,
                 cleanCalled, cleanKeep, files_to_keep, files_to_delete, swept, deleted,
                 unremoved, histRead>>

Clean ==
  \/ CleanLoad \/ CleanLoadErr \/ CleanWalk \/ CleanWalkErr
  \/ CleanRemoveOk \/ CleanRemoveErr \/ CleanSendDone \/ CleanJoin

Worker(w) ==
  \/ WorkerTake(w) \/ WorkerFetchOk(w) \/ WorkerFetchErr(w)
  \/ WorkerFetchAdd(w) \/ WorkerIncrement(w)

Next ==
  \/ SyncRustupInit \/ Dispatch \/ PoolJoin
  \/ \E w \in DOMAIN worker : Worker(w)
  \/ SendDone \/ ReporterRecv \/ PbJoin
  \/ LoadErrorsOk \/ LoadErrorsFailed
  \/ ChannelCall \/ ChannelSkip
  \/ DownloadManifestOk \/ DownloadManifestErr
  \/ DownloadReleaseOk \/ DownloadReleaseErr
  \/ ResolveManifest \/ ResolveManifestErr
  \/ AddHistoryOk \/ AddHistoryErr
  \/ PublishManifestOk \/ PublishManifestErr
  \/ PublishReleaseOk \/ PublishReleaseErr
  \/ RetentionSkip \/ RetentionClean
  \/ Clean
  \/ SyncReturn

Spec == Init /\ [][Next]_vars

\* sync with every thread that can take a step taking one in the end: the
\* pool's threads and the reporter are scheduled, and a fetch returns.
SpecLive == Init /\ [][Next]_vars /\ WF_vars(Next)

Batch ==
  \/ Dispatch \/ PoolJoin
  \/ \E w \in DOMAIN worker : Worker(w)
  \/ SendDone \/ ReporterRecv \/ PbJoin
  \/ LoadErrorsOk \/ LoadErrorsFailed

NextStageCall ==
  \/ SyncRustupInit
  \/ Batch
  \/ DownloadManifestOk \/ DownloadManifestErr
  \/ DownloadReleaseOk \/ DownloadReleaseErr
  \/ ResolveManifest \/ ResolveManifestErr
  \/ AddHistoryOk \/ AddHistoryErr
  \/ PublishManifestOk \/ PublishManifestErr
  \/ PublishReleaseOk \/ PublishReleaseErr

SpecStage == InitStage /\ [][NextStageCall]_vars

\* ---------------------------------------- clean_old_files called directly

\* "dist/<date>/<c>-lx.gz": the artifact of a channel released at a date.
Art(ch, d) == DistStr(d, ArtName(ch, P_lx), S_gz)

\* The histories clean_old_files is run on: per channel none, or one with
\* three, two and one dates; beta's newest date records stable's newest
\* artifact too.
StableHistories ==
  {EmptyMap,
   MapInsert(MapInsert(MapInsert(EmptyMap, D_mid, <<Art("stable", D_mid)>>),
                       D_new, <<Art("stable", D_new)>>),
             D_old, <<Art("stable", D_old)>>)}
BetaHistories ==
  {EmptyMap,
   MapInsert(MapInsert(EmptyMap, D_new, <<Art("stable", D_new)>>),
             D_mid, <<Art("beta", D_mid)>>)}
NightlyHistories ==
  {EmptyMap, MapInsert(EmptyMap, D_new, <<Art("nightly", D_new)>>)}

Recorded(versions) == UNION {Range(versions[d]) : d \in DOMAIN versions}

\* What else is on the disk: nothing; a file no history records; a file
\* whose name is not UTF-8; a directory under dist/<date>/; and a recorded
\* file that cannot be removed.
Environments ==
  {[extra |-> {}, locked |-> {}],
   [extra |-> {<<S_dist, D_old, S_notes>>}, locked |-> {}],
   [extra |-> {<<S_dist, D_mid, NotUtf8>>}, locked |-> {}],
   [extra |-> {<<S_dist, D_new, S_doc, S_notes>>}, locked |-> {}],
   [extra |-> {}, locked |-> {Components(Art("stable", D_old))}]}

\* The files that are there whatever the histories: a published manifest
\* and an installer.
FixedFiles ==
  {channel_path("stable"), Sha256Of(channel_path("stable")),
   Components(InitItem(P_lx, FALSE).path)}

InitClean ==
  /\ top = "clean"
  /\ rustup \in Configurations({<<None, None>>}, {None})
  /\ rustup.download_threads = 1
  /\ cleanKeep \in [Channels -> KeepChoices(MaxKeepClean)]
  /\ \E hs \in StableHistories, hb \in BetaHistories, hn \in NightlyHistories,
        env \in Environments :
        /\ hist = [ch \in Channels |->
                     CASE ch = "stable" -> hs [] ch = "beta" -> hb [] OTHER -> hn]
        /\ disk = FixedFiles \cup env.extra
                    \cup {Components(f) : f \in Recorded(hs) \cup Recorded(hb) \cup Recorded(hn)}
                    \cup {channel_history_path(ch) : ch \in
                            {c \in Channels :
                               (CASE c = "stable" -> hs [] c = "beta" -> hb [] OTHER -> hn)
                                 # EmptyMap}}
        /\ locked = env.locked
  /\ remote \in SyncRemotes
  /\ published = PublishedAtStart
  /\ pc = "clean_load" /\ cur = "retention"
  /\ failures = FALSE
  /\ result = [s \in Stages \cup {"sync"} |-> Pending]
  /\ batchLog = [s \in Stages |-> None]
  /\ histAtCall = HistoryFiles /\ diskAtCall = disk /\ run = 1 /\ date = <<>>
  /\ worker = [w \in 1..rustup.download_threads |-> 0]
  /\ NoBatch
  /\ cleanCalled = TRUE
  /\ files_to_keep = {} /\ files_to_delete = {} /\ swept = {}
  /\ deleted = {} /\ unremoved = {} /\ histRead = {} /\ cleanResult = Pending
  /\ NoFetch

NextClean == Clean \/ ReporterRecv

SpecClean == InitClean /\ [][NextClean]_vars


\* ------------------------------ sync_rustup_channel("stable") called twice

InitTwice ==
  /\ top = "twice"
  /\ rustup \in Configurations(StageFilters, {None})
  /\ \E m \in StageMirrors : disk = m.disk /\ hist = m.hist
  /\ locked = {}
  /\ remote \in StageRemotes
  /\ Unfiltered => remote \in SyncRemotes
  /\ cur = "stable" /\ pc = "dl_manifest"
  /\ cleanKeep = [ch \in Channels |-> None]
  /\ Fresh

\* The first call returned Ok: the stage is called again, the source
\* serving what it served.
CallAgain ==
  /\ top = "twice" /\ pc = "done" /\ run = 1 /\ result[cur] = Ok
  /\ run' = 2
  /\ histAtCall' = HistoryFiles /\ diskAtCall' = disk
  /\ result' = [result EXCEPT ![cur] = Pending]
  /\ batchLog' = [batchLog EXCEPT ![cur] = None]
  /\ pc' = "dl_manifest"
  /\ UNCHANGED <<cfgVars, cur, failures, fsVars, date, batchVars, pbVars, cleanVars>>

NextTwice ==
  \/ Batch
  \/ DownloadManifestOk \/ DownloadManifestErr
  \/ DownloadReleaseOk \/ DownloadReleaseErr
  \/ ResolveManifest \/ ResolveManifestErr
  \/ AddHistoryOk \/ AddHistoryErr
  \/ PublishManifestOk \/ PublishManifestErr
  \/ PublishReleaseOk \/ PublishReleaseErr
  \/ CallAgain

SpecTwice == InitTwice /\ [][NextTwice]_vars

\* ----------- sync_rustup_channel("stable") called again with fewer targets

\* The filter b lets through no more than the filter a, and is another one.
Narrower(a, b) ==
  /\ a # b
  /\ a[1] # None => b[1] = a[1]
  /\ a[2] # None => b[2] = a[2]

InitNarrow ==
  /\ top = "narrow"
  /\ rustup \in Configurations(StageFilters, {None})
  /\ \E m \in StageMirrors : disk = m.disk /\ hist = m.hist
  /\ locked = {}
  /\ remote \in StageRemotes
  /\ Unfiltered => remote \in SyncRemotes
  /\ cur = "stable" /\ pc = "dl_manifest"
  /\ cleanKeep = [ch \in Channels |-> None]
  /\ Fresh

\* The first call returned Ok: the configuration is given a narrower
\* platform or extension filter and the stage is called again.
CallNarrower ==
  /\ top = "narrow" /\ pc = "done" /\ run = 1 /\ result[cur] = Ok
  /\ \E f \in StageFilters :
        /\ Narrower(<<rustup.target_platform, rustup.target_extension>>, f)
        /\ rustup' = [rustup EXCEPT !.target_platform = f[1], !.target_extension = f[2]]
  /\ run' = 2
  /\ histAtCall' = HistoryFiles /\ diskAtCall' = disk
  /\ result' = [result EXCEPT ![cur] = Pending]
  /\ batchLog' = [batchLog EXCEPT ![cur] = None]
  /\ pc' = "dl_manifest"
  /\ UNCHANGED <<top, locked, remote, fetchVars, published, cur, failures, fsVars, date,
                 batchVars, pbVars, cleanVars>>

NextNarrow ==
  \/ Batch
  \/ DownloadManifestOk \/ DownloadManifestErr
  \/ DownloadReleaseOk \/ DownloadReleaseErr
  \/ ResolveManifest \/ ResolveManifestErr
  \/ AddHistoryOk \/ AddHistoryErr
  \/ PublishManifestOk \/ PublishManifestErr
  \/ PublishReleaseOk \/ PublishReleaseErr
  \/ CallNarrower

SpecNarrow == InitNarrow /\ [][NextNarrow]_vars

\* ------------------------------------------ one fetch, called on its own

\* What a file holds: the artifact the hash is of, a body with another
\* hash, the start of a body, or what was there before.
Good == "good"
Bad == "bad"
Partial == "partial"
Old == "old"
HashOf(data) == IF data = Good THEN "h-good" ELSE "h-other"

\* A faulty DownloadCall: one attempt more is asked for.
DownloadCallOneMore(source, url, hash, retries) ==
  DownloadArgs(source \o <<Slash>> \o url, Components(url), Some(hash), retries + 1, FALSE)

\* A faulty DownloadCall: no hash is handed on.
DownloadCallNoHash(source, url, hash, retries) ==
  DownloadArgs(source \o <<Slash>> \o url, Components(url), None, retries, FALSE)

\* sync_one_rustup_target's call: download(&target_url, &target_path,
\* Some(hash), retries, false, user_agent), with target_url the source and
\* the url joined by '/', and target_path = path.join(url).
DownloadCall(source, url, hash, retries) ==
  DownloadArgs(source \o <<Slash>> \o url, Components(url), Some(hash), retries, FALSE)

\* The two artifacts of the stable manifest, and the other one of each.
FetchUrls == {DistStr(D_new, ArtName("stable", P_lx), S_gz),
              DistStr(D_new, ArtName("stable", P_lx), S_xz)}
Sibling(url) == CHOOSE u \in FetchUrls : u # url

\* sync_one_rustup_target is entered.
InitFetch ==
  /\ top = "fetch"
  /\ rustup \in Configurations({<<None, None>>}, {None})
  /\ rustup.download_threads = 1
  /\ \E m \in StageMirrors : disk = m.disk /\ hist = m.hist
  /\ locked = {}
  /\ remote \in SyncRemotes
  /\ pc = "done" /\ cur = "stable"
  /\ cleanKeep = [ch \in Channels |-> None]
  /\ FreshRun
  /\ \E url \in FetchUrls, n \in 1..MaxRetries, prior \in {None, Some(Old), Some(Good)} :
        /\ fetchCall = FetchArgs(url, HashOf(Good), n, prior)
        /\ content = [p \in {Components(url), Components(Sibling(url))} |->
                        IF p = Components(url) THEN prior ELSE Some(Old)]
  /\ fetchReq = NoRequest
  /\ fetchPc = "call" /\ fetchTries = 0 /\ fetchWhy = "none"
  /\ part = None /\ fetchResult = Pending

notFetch == <<top, rustup, locked, remote, published, pc, coordVars, fsVars, callVars,
              batchVars, pbVars, cleanVars>>

\* sync_one_rustup_target calls download.
SyncOneRustupTarget ==
  /\ fetchPc = "call"
  /\ fetchReq' = DownloadCall(rustup.source, fetchCall.url, fetchCall.hash,
                              fetchCall.retries)
  /\ fetchPc' = "exists"
  /\ UNCHANGED <<notFetch, fetchCall, fetchTries, fetchWhy, part, content, fetchResult>>

\* download finds the destination there with the expected hash and returns
\* Ok without a request.
DownloadShortCircuit ==
  /\ fetchPc = "exists"
  /\ ~fetchReq.force_download
  /\ fetchReq.hash # None /\ content[fetchReq.path] # None
  /\ HashOf(Unwrap(content[fetchReq.path])) = Unwrap(fetchReq.hash)
  /\ fetchResult' = Ok
  /\ fetchPc' = "returned"
  /\ UNCHANGED <<notFetch, fetchCall, fetchReq, fetchTries, fetchWhy, part, content>>

\* download goes on to its attempts.
DownloadBegin ==
  /\ fetchPc = "exists"
  /\ fetchPc' = "loop"
  /\ UNCHANGED <<notFetch, fetchCall, fetchReq, fetchTries, fetchWhy, part, content,
                 fetchResult>>

\* One more attempt is allowed.
AttemptsLeft(tries, retries) == tries < retries

\* An attempt starts: the GET is sent.
AttemptStart ==
  /\ fetchPc = "loop" /\ AttemptsLeft(fetchTries, fetchReq.retries)
  /\ fetchTries' = fetchTries + 1
  /\ fetchPc' = "get"
  /\ UNCHANGED <<notFetch, fetchCall, fetchReq, fetchWhy, part, content, fetchResult>>

\* The attempts are used up: the last error is returned, and
\* sync_one_rustup_target's `?` returns it.
AttemptsExhausted ==
  /\ fetchPc = "loop" /\ ~AttemptsLeft(fetchTries, fetchReq.retries)
  /\ fetchResult' = Err("Download")
  /\ fetchPc' = "returned"
  /\ UNCHANGED <<notFetch, fetchCall, fetchReq, fetchTries, fetchWhy, part, content>>

\* Where the body of a response is written: the .part sibling when a hash
\* is to be verified, the destination itself when not.
WritesPart == fetchReq.hash # None

\* The request failed (transport error or non-success status), with
\* nothing or the start of a body written.
GetFailed ==
  /\ fetchPc = "get"
  /\ \E why \in {"transport", "status"}, written \in {None, Some(Partial)} :
        /\ fetchWhy' = why
        /\ IF why = "status" \/ written = None
             THEN UNCHANGED <<part, content>>
             ELSE IF WritesPart
               THEN part' = written /\ UNCHANGED content
               ELSE content' = [content EXCEPT ![fetchReq.path] = written]
                    /\ UNCHANGED part
  /\ fetchPc' = "discard"
  /\ UNCHANGED <<notFetch, fetchCall, fetchReq, fetchTries, fetchResult>>

\* The body came in whole: the artifact, or something else.
GetBody ==
  /\ fetchPc = "get"
  /\ \E data \in {Good, Bad} :
        IF WritesPart
          THEN part' = Some(data) /\ UNCHANGED content
          ELSE content' = [content EXCEPT ![fetchReq.path] = Some(data)]
               /\ UNCHANGED part
  /\ fetchPc' = "verify"
  /\ UNCHANGED <<notFetch, fetchCall, fetchReq, fetchTries, fetchWhy, fetchResult>>

\* The hash of what was written is the expected one (or none is expected).
Verified ==
  fetchReq.hash = None \/ HashOf(Unwrap(part)) = Unwrap(fetchReq.hash)

\* Verification passed: the .part file is renamed over the destination and
\* download returns Ok.
VerifyPublish ==
  /\ fetchPc = "verify" /\ Verified
  /\ IF WritesPart
       THEN content' = [content EXCEPT ![fetchReq.path] = part] /\ part' = None
       ELSE UNCHANGED <<part, content>>
  /\ fetchResult' = Ok
  /\ fetchPc' = "returned"
  /\ UNCHANGED <<notFetch, fetchCall, fetchReq, fetchTries, fetchWhy>>

\* Verification failed: the attempt failed with a hash mismatch.
VerifyMismatch ==
  /\ fetchPc = "verify" /\ ~Verified
  /\ fetchWhy' = "hash"
  /\ fetchPc' = "discard"
  /\ UNCHANGED <<notFetch, fetchCall, fetchReq, fetchTries, part, content, fetchResult>>

\* The .part file of a failed attempt is discarded.
DiscardPart ==
  /\ fetchPc = "discard"
  /\ part' = None
  /\ fetchPc' = "loop"
  /\ UNCHANGED <<notFetch, fetchCall, fetchReq, fetchTries, fetchWhy, content,
                 fetchResult>>

NextFetch ==
  \/ SyncOneRustupTarget
  \/ DownloadShortCircuit \/ DownloadBegin
  \/ AttemptStart \/ AttemptsExhausted
  \/ GetFailed \/ GetBody
  \/ VerifyPublish \/ VerifyMismatch
  \/ DiscardPart

SpecFetch == InitFetch /\ [][NextFetch]_vars

\* ----------------------------------------------------------------- claims

Count(q, m) == Cardinality({i \in 1..Len(q) : q[i] = m})
AllIdle == \A w \in DOMAIN worker : worker[w] = 0
Logged(s) == batchLog[s] # None
LogOf(s) == Unwrap(batchLog[s])

\* C1: when a channel's batch ended with a failure count above zero, the
\* channel's history file is what it was when the stage was entered: neither
\* created nor given or changed an entry.
C1_HistoryKeptOnFailedBatch ==
  \A ch \in Channels :
    (Logged(ch) /\ LogOf(ch).errors > 0) => HistoryFile(ch) = histAtCall[ch]

\* Both items of a channel's batch failed, on a mirror that had a history.
C1_Witness ==
  \E ch \in Channels :
    /\ Logged(ch) /\ LogOf(ch).errors = 2
    /\ result[ch] = FailedDownloads(2)
    /\ histAtCall[ch].exists

\* C2: once a channel stage of sync has returned an error, clean_old_files
\* is never invoked and no file is removed in that run.
C2_NoRetentionAfterStageError ==
  (\E ch \in Channels : IsErr(result[ch])) => (~cleanCalled /\ deleted = {})

\* sync ended with a failed channel stage and some keep-count configured.
C2_Witness ==
  /\ pc = "done" /\ top = "sync"
  /\ \E ch \in Channels : IsErr(result[ch])
  /\ GateNow = "skip_failures"

\* C3 as stated: with any of the three keep-counts unset, clean_old_files is
\* not invoked and nothing is deleted.
C3_Original ==
  (\E ch \in Channels : KeepOf(ch) = None) => (~cleanCalled /\ deleted = {})

\* C3 as amended: clean_old_files is invoked only when at least one of the
\* three keep-counts is configured; with all three unset it is not invoked
\* and nothing is deleted; with one configured and no failed channel stage,
\* a finished sync has invoked it.
C3_RetentionSkippedOnlyWhenAllUnset ==
  /\ cleanCalled => \E ch \in Channels : KeepOf(ch) # None
  /\ (\A ch \in Channels : KeepOf(ch) = None) => (~cleanCalled /\ deleted = {})
  /\ (pc = "done" /\ ~failures /\ \E ch \in Channels : KeepOf(ch) # None) => cleanCalled

\* clean_old_files ran, and removed a file, with a keep-count unset.
C3_Witness ==
  /\ top = "sync" /\ cleanCalled /\ deleted # {}
  /\ \E ch \in Channels : KeepOf(ch) = None

\* The recorded dates of a channel that are among its n most recent: fewer
\* than n recorded dates are later.
MostRecent(ch, n) ==
  {d \in DOMAIN hist[ch] :
     Cardinality({d2 \in DOMAIN hist[ch] : LexLess(d, d2)}) < n}

\* The paths recorded under the n most recent dates of every channel whose
\* keep-count n is configured.
RetainedPaths ==
  UNION {UNION {Range(hist[ch][d]) : d \in MostRecent(ch, Unwrap(cleanKeep[ch]))} :
           ch \in {c \in Channels : cleanKeep[c] # None}}

KeepSetBuilt ==
  pc \in {"clean_walk", "clean_sweep", "clean_join"} \/ cleanResult = Ok

\* C4: the keep-set clean_old_files builds is exactly the union, over the
\* channels with a configured keep-count N, of the paths recorded under that
\* channel's N most recent history dates, and no file whose path is in it is
\* ever removed.
C4_KeepSetIsRecentUnion ==
  /\ KeepSetBuilt => files_to_keep = RetainedPaths
  /\ \A p \in deleted : to_str(p) # None /\ Unwrap(to_str(p)) \notin RetainedPaths

\* A cleanup that kept the two latest of three recorded stable dates and
\* removed the oldest one's file.
C4_Witness ==
  /\ cleanResult = Ok
  /\ cleanKeep["stable"] = Some(2)
  /\ Cardinality(DOMAIN hist["stable"]) = 3
  /\ Components(Art("stable", D_old)) \in deleted
  /\ {Art("stable", D_mid), Art("stable", D_new)} \subseteq files_to_keep
  /\ Components(Art("stable", D_new)) \in disk

TwoLevelsUnderDist(p) == Len(p) = 3 /\ p[1] = S_dist
InKeepSet(p) == to_str(p) # None /\ Unwrap(to_str(p)) \in files_to_keep

\* C5 as stated: after clean_old_files returned Ok with every removal
\* succeeding, every file two levels under dist/ whose path is not in the
\* keep-set is gone.
C5_Original ==
  (cleanResult = Ok /\ unremoved = {}) =>
    \A p \in disk : TwoLevelsUnderDist(p) => InKeepSet(p)

\* C5 as amended: after clean_old_files returned Ok with every removal
\* succeeding, every file two levels under dist/ whose path is valid UTF-8 and
\* not in the keep-set is gone.
C5_UnkeptUtf8FilesGone ==
  (cleanResult = Ok /\ unremoved = {}) =>
    \A p \in disk : (TwoLevelsUnderDist(p) /\ to_str(p) # None) => InKeepSet(p)

\* A cleanup that removed files of two date directories and left a kept one.
C5_Witness ==
  /\ cleanResult = Ok /\ unremoved = {}
  /\ \E p, q \in deleted : p[2] # q[2]
  /\ \E p \in disk : TwoLevelsUnderDist(p) /\ InKeepSet(p)

RecordedBy(ch) == UNION {Range(hist[ch][d]) : d \in DOMAIN hist[ch]}
OnlyRecordedBy(ch, p) ==
  /\ to_str(p) # None
  /\ Unwrap(to_str(p)) \in RecordedBy(ch)
  /\ \A c \in Channels \ {ch} : Unwrap(to_str(p)) \notin RecordedBy(c)

\* C6: in a cleanup with a channel's keep-count unset and another's set, the
\* unset channel's history is not read and no file recorded only in that
\* channel's history is removed.
C6_UnsetChannelUntouched ==
  \A ch \in Channels :
    (cleanKeep[ch] = None /\ \E c \in Channels : cleanKeep[c] # None) =>
      /\ ch \notin histRead
      /\ \A p \in deleted : ~OnlyRecordedBy(ch, p)

BatchDone == pc \in {"send_done", "pb_join", "load_errors"}

\* C7: every item of a batch is taken by at most one worker and fetched at
\* most once, and once the pool has been joined every item, whether a sibling
\* failed or not, has been taken and fetched exactly once.
C7_EachItemOnce ==
  /\ \A i \in DOMAIN takes : takes[i] <= 1 /\ attempts[i] <= 1
  /\ BatchDone => \A i \in 1..Len(files) : takes[i] = 1 /\ attempts[i] = 1

\* A joined two-item batch on two workers, one item failed and one fetched.
C7_Witness ==
  /\ pc = "load_errors" /\ Len(files) = 2
  /\ rustup.download_threads = 2
  /\ Cardinality(failedItems) = 1
  /\ \A i \in 1..2 : takes[i] = 1 /\ attempts[i] = 1

StageResultFollowsCount(s) ==
  /\ result[s].tag = "FailedDownloads" <=> LogOf(s).failed > 0
  /\ result[s].tag = "FailedDownloads" => result[s] = FailedDownloads(LogOf(s).failed)
  /\ result[s] = Ok => LogOf(s).failed = 0

\* C8 as stated: the count a batch loads is the number of its items whose
\* fetch failed, and the batch returns Ok if and only if that number is zero.
C8_Original ==
  \A s \in Stages :
    Logged(s) =>
      /\ LogOf(s).errors = LogOf(s).failed
      /\ result[s] # Pending => (result[s] = Ok <=> LogOf(s).failed = 0)

\* C8 as amended: the count a batch loads is the number of its items whose
\* fetch failed; the stage returns FailedDownloads(n) exactly when that number
\* n is above zero; sync_rustup_init returns Ok exactly when it is zero, and
\* sync_rustup_channel returns Ok only when it is zero.
C8_CountIsFailures ==
  /\ errors_occurred <= Cardinality(failedItems)
  /\ BatchDone => errors_occurred = Cardinality(failedItems)
  /\ \A s \in Stages :
       Logged(s) =>
         /\ LogOf(s).errors = LogOf(s).failed
         /\ result[s] # Pending =>
              /\ StageResultFollowsCount(s)
              /\ s = "init" => (result[s] = Ok <=> LogOf(s).failed = 0)

\* A channel batch on two workers whose two items both failed.
C8_Witness ==
  \E ch \in Channels :
    /\ Logged(ch) /\ LogOf(ch).failed = 2 /\ LogOf(ch).items = 2
    /\ rustup.download_threads = 2
    /\ result[ch] = FailedDownloads(2)

InBatch ==
  pc \in {"dispatch", "send_done", "pb_join", "load_errors", "add_history",
          "publish_manifest", "publish_release"}

\* C9: in a batch of k items at most k Increment and at most one Done are
\* sent; Done is sent after all k Increment and after every worker has ended,
\* nothing follows it, and the count is loaded only after the reporter has
\* taken Done and ended.
C9_IncrementsThenDone ==
  /\ InBatch =>
       /\ Count(chan, "Done") <= 1
       /\ Count(chan, "Increment") <= Len(files)
       /\ Count(chan, "Done") = 1 =>
            /\ chan[Len(chan)] = "Done"
            /\ Count(chan, "Increment") = Len(files)
            /\ AllIdle
            /\ \A i \in 1..Len(files) : itemPc[i] = "done"
       /\ pc \notin {"dispatch", "send_done", "pb_join"} =>
            /\ Count(chan, "Done") = 1
            /\ pbExited
  /\ \A s \in Stages : result[s] # Pending /\ Logged(s) => pbExited

\* A joined two-item batch with one failed item: two Increment, then Done.
C9_Witness ==
  /\ pc = "load_errors" /\ Len(files) = 2
  /\ Cardinality(failedItems) = 1
  /\ Count(chan, "Increment") = 2 /\ Count(chan, "Println") = 1
  /\ chan[Len(chan)] = "Done"

\* C10: the history write and the publishing of the manifest and the release
\* file happen only once every worker of the stage's batch has ended, and no
\* worker of a stage is running when the next stage or retention runs.
C10_CommitAfterWorkers ==
  /\ pc \in {"add_history", "publish_manifest", "publish_release"} =>
       AllIdle /\ queue = <<>> /\ \A i \in 1..Len(files) : itemPc[i] = "done"
  /\ pc \in {"call_init", "gate", "dl_manifest", "dl_release", "resolve",
             "clean_load", "clean_walk", "clean_sweep", "clean_join", "sync_end",
             "done"} =>
       AllIdle /\ queue = <<>>
  /\ \A ch \in Channels :
       HistoryFile(ch) # histAtCall[ch] => (Logged(ch) /\ AllIdle)

\* The second channel stage is at its history write, after the first one's
\* batch.
C10_Witness ==
  /\ top = "sync" /\ cur = "beta" /\ pc = "add_history"
  /\ Logged("stable") /\ Len(files) >= 1

\* The place of a stage in sync.
StageIndex(s) ==
  CASE s = "init" -> 1 [] s = "stable" -> 2 [] s = "beta" -> 3
    [] s = "nightly" -> 4 [] OTHER -> 5
Past(s) == StageIndex(cur) > StageIndex(s)
Ran(s) == result[s] \notin {Pending, Skipped}

\* C11: sync goes through its stages in the order installer, stable, beta,
\* nightly, retention; an error a channel stage returned sets the failure
\* flag, and every channel stage sync has passed whose keep-count is not
\* zero was run, whatever the earlier stages returned.
C11_StagesInOrder ==
  /\ \A s \in Stages :
       /\ result[s] # Pending <=> Past(s)
       /\ Logged(s) => StageIndex(s) <= StageIndex(cur)
  /\ cleanCalled => cur = "retention"
  /\ (\E ch \in Channels : IsErr(result[ch])) => failures
  /\ \A ch \in Channels : (Past(ch) /\ KeepOf(ch) # Some(0)) => Ran(ch)

\* The nightly stage runs after the stable stage returned failed downloads
\* and the beta stage an error from outside the pool.
C11_Witness ==
  /\ top = "sync" /\ cur = "nightly" /\ pc = "dispatch"
  /\ result["stable"].tag = "FailedDownloads"
  /\ result["beta"].tag \in {"Download", "Parse", "Io"}
  /\ failures

\* The files sync_rustup_channel writes for a channel other than artifacts.
ChannelFiles(ch) ==
  disk \cap {channel_path(ch), Sha256Of(channel_path(ch)), channel_part_path(ch),
             Sha256Of(channel_part_path(ch)), release_path(ch), release_part_path(ch),
             channel_history_path(ch)}

C12_State ==
  \A ch \in Channels :
    /\ KeepOf(ch) = Some(0) =>
         /\ result[ch] \in {Pending, Skipped} /\ ~Logged(ch)
         /\ cur = ch => pc = "gate"
         /\ Past(ch) => result[ch] = Skipped
    /\ (KeepOf(ch) # Some(0) /\ Past(ch)) => Ran(ch)

C12_Step ==
  \A ch \in Channels :
    KeepOf(ch) = Some(0) =>
      /\ hist'[ch] = hist[ch]
      /\ ChannelFiles(ch)' = ChannelFiles(ch)

\* C12: a channel stage is run exactly when its keep-count is not Some(0):
\* with Some(0) sync never enters the stage, and no step changes the
\* channel's history or its manifest and release files; with None or
\* Some(n > 0) the stage was run once sync has passed it.
C12_StageRunsUnlessKeepZero == [](C12_State) /\ [][C12_Step]_vars

\* sync ended having skipped stable, whose history was there, and run beta.
C12_Witness ==
  /\ top = "sync" /\ pc = "done"
  /\ KeepOf("stable") = Some(0) /\ result["stable"] = Skipped
  /\ channel_history_path("stable") \in disk
  /\ result["beta"] = Ok

\* C13: an error returned by sync_rustup_init does not set the failure flag:
\* the channel stages sync has passed were run, and with no channel stage
\* failed and a keep-count configured a finished sync has invoked
\* clean_old_files.
C13_InstallerFailureNotCounted ==
  IsErr(result["init"]) =>
    /\ failures <=> \E ch \in Channels : IsErr(result[ch])
    /\ \A ch \in Channels : (Past(ch) /\ KeepOf(ch) # Some(0)) => Ran(ch)
    /\ (pc = "done" /\ (\A ch \in Channels : ~IsErr(result[ch]))
          /\ \E ch \in Channels : KeepOf(ch) # None) => cleanCalled

\* sync ended with the installer stage failed, the channel stages run and
\* clean_old_files having removed a file.
C13_Witness ==
  /\ top = "sync" /\ pc = "done"
  /\ IsErr(result["init"])
  /\ \A ch \in Channels : result[ch] = Ok
  /\ cleanCalled /\ deleted # {}

C14_Returned ==
  (top = "sync" /\ pc = "done") =>
    /\ result["sync"] = Ok
    /\ \A st \in Stages : result[st] # Pending

\* C14: sync always comes to its end, and it then has gone through every
\* stage and returns Ok, whatever the installer stage, the channel stages
\* and clean_old_files returned.
C14_SyncCompletesOk ==
  /\ [](C14_Returned)
  /\ [](result["sync"] \in {Pending, Ok})
  /\ <>(pc = "done")

\* sync returned Ok after the installer stage and two channel stages failed.
C14_Witness ==
  /\ top = "sync" /\ pc = "done" /\ result["sync"] = Ok
  /\ IsErr(result["init"])
  /\ result["stable"].tag = "FailedDownloads"
  /\ result["beta"].tag = "Io"

\* sync returned Ok after clean_old_files returned an error.
C14_WitnessClean ==
  /\ top = "sync" /\ pc = "done" /\ result["sync"] = Ok
  /\ IsErr(cleanResult)

FetchFailed == fetchPc = "returned" /\ IsErr(fetchResult)
Dest == Components(fetchCall.url)

\* C15: a fetch with N retries never makes more than N attempts; when it
\* is reported failed every one of exactly N attempts was made and failed,
\* and the other artifact is as it was.
C15_ExactlyNAttempts ==
  /\ fetchTries <= fetchCall.retries
  /\ FetchFailed => (fetchTries = fetchCall.retries /\ fetchWhy # "none")
  /\ (fetchPc = "returned" /\ fetchTries < fetchCall.retries) => fetchResult = Ok
  /\ top = "fetch" => content[Components(Sibling(fetchCall.url))] = Some(Old)

\* A fetch with three retries was reported failed after three attempts.
C15_Witness ==
  /\ FetchFailed /\ fetchCall.retries = 3 /\ fetchTries = 3

\* C16: the destination of a fetch with an expected hash holds at any time
\* what it held before the fetch or the verified artifact, and after a
\* fetch reported failed it holds (or lacks) what it did before; a body
\* that failed verification is only ever in the .part sibling.
C16_FailedFetchKeepsDestination ==
  top = "fetch" =>
    /\ content[Dest] \in {fetchCall.prior, Some(Good)}
    /\ FetchFailed => (content[Dest] = fetchCall.prior /\ part = None)

\* A fetch reported failed whose last attempt failed verification, over a
\* destination that held an earlier file.
C16_Witness ==
  /\ FetchFailed /\ fetchWhy = "hash"
  /\ fetchCall.prior = Some(Old) /\ content[Dest] = Some(Old)

\* The second of two calls of the stable stage returned Ok.
SecondRunOk ==
  top = "twice" /\ run = 2 /\ pc = "done" /\ result["stable"] = Ok

\* C17 as stated: after the second of two stable syncs against the same
\* manifest, all downloads succeeding, no failure is reported, the history
\* file is what it was after the first one (the same path list under the
\* release date), and the files on disk are the same.
C17_Original ==
  SecondRunOk =>
    /\ LogOf("stable").failed = 0
    /\ HistoryFile("stable") = histAtCall["stable"]
    /\ disk = diskAtCall

\* The lists hold the same paths, each as many times.
SamePaths(a, b) ==
  /\ Len(a) = Len(b)
  /\ \A p \in Range(a) \cup Range(b) :
       Cardinality({i \in 1..Len(a) : a[i] = p}) = Cardinality({i \in 1..Len(b) : b[i] = p})

\* C17 as amended: after the second run no failure is reported, the history
\* has the dates it had after the first run, every other date's entry is as
\* it was, the release date's entry holds the same paths, each as many times
\* as after the first run (in an order that may differ), and the files on
\* disk are the same.
C17_SecondRunKeepsPaths ==
  SecondRunOk =>
    /\ LogOf("stable").failed = 0 /\ LogOf("stable").errors = 0
    /\ HistoryFile("stable").exists /\ histAtCall["stable"].exists
    /\ DOMAIN hist["stable"] = DOMAIN histAtCall["stable"].versions
    /\ \A d \in DOMAIN hist["stable"] :
         IF d = remote["stable"].date
           THEN SamePaths(hist["stable"][d], histAtCall["stable"].versions[d])
           ELSE hist["stable"][d] = histAtCall["stable"].versions[d]
    /\ \A ch \in Channels \ {"stable"} : HistoryFile(ch) = histAtCall[ch]
    /\ disk = diskAtCall

\* A second run over a history of two dates that recorded two paths.
C17_Witness ==
  /\ SecondRunOk
  /\ Cardinality(DOMAIN hist["stable"]) = 2
  /\ Len(hist["stable"][D_new]) = 2
  /\ LogOf("stable").items = 2

\* The dates clean_old_files asks for, for a channel with a keep count.
LatestDates(ch) ==
  latest_dates_from_channel_history(get_channel_history(ch), Unwrap(cleanKeep[ch]))

\* C18: latest_dates_from_channel_history(h, n) returns min(n, number of
\* dates) keys of h, the lexically greatest ones, in strictly descending
\* order (hence without duplicates); none for n = 0, all of them when h has
\* no more than n.
C18_LatestDatesAreGreatestDescending ==
  \A ch \in Channels :
    cleanKeep[ch] # None =>
      LET n == Unwrap(cleanKeep[ch])
          dates == DOMAIN get_channel_history(ch)
          r == LatestDates(ch)
      IN  /\ Len(r) = (IF n < Cardinality(dates) THEN n ELSE Cardinality(dates))
          /\ Range(r) \subseteq dates
          /\ \A i, j \in 1..Len(r) : i < j => LexLess(r[j], r[i])
          /\ \A d \in dates \ Range(r) : \A i \in 1..Len(r) : LexLess(d, r[i])
          /\ n = 0 => r = <<>>
          /\ Cardinality(dates) <= n => Range(r) = dates

\* clean_old_files asked for two of three dates, for none of two, and for
\* two where there is one.
C18_Witness ==
  /\ top = "clean" /\ pc # "clean_load" /\ histRead = Channels
  /\ cleanKeep = [ch \in Channels |->
                    CASE ch = "stable" -> Some(2) [] ch = "beta" -> Some(0) [] OTHER -> Some(2)]
  /\ LatestDates("stable") = <<D_new, D_mid>>
  /\ LatestDates("beta") = <<>>
  /\ LatestDates("nightly") = <<D_new>>
  /\ Cardinality(DOMAIN hist["beta"]) = 2

\* add_to_channel_history returned Ok in this step.
HistoryAdded == pc = "add_history" /\ pc' = "publish_manifest"

\* C19: add_to_channel_history(channel, date, files) leaves the channel's
\* history file holding, under the date, the paths of the files in the
\* order given (a new entry, or the old one overwritten); every other date
\* of the channel keeps its entry, the other channels' histories are
\* untouched, and when the file was missing (it loads as an empty history)
\* the result has exactly that one entry.
C19_Step ==
  HistoryAdded =>
    LET before == get_channel_history(cur)
    IN  /\ HistoryFile(cur)'.exists
        /\ DOMAIN hist'[cur] = DOMAIN before \cup {date}
        /\ hist'[cur][date] = [i \in 1..Len(files) |-> files[i].path]
        /\ \A d \in DOMAIN before \ {date} : hist'[cur][d] = before[d]
        /\ \A ch \in Channels \ {cur} : HistoryFile(ch)' = HistoryFile(ch)
        /\ ~HistoryFile(cur).exists => DOMAIN hist'[cur] = {date}
C19_AddTouchesOneEntry == [][C19_Step]_vars

\* The second run overwrote the entry of its date with the paths in another
\* order, next to the entry of an older date.
C19_Witness ==
  /\ top = "twice" /\ run = 2 /\ pc = "publish_manifest"
  /\ DOMAIN hist["stable"] = {D_old, D_new}
  /\ hist["stable"][D_new] # histAtCall["stable"].versions[D_new]
  /\ hist["stable"][D_old] = histAtCall["stable"].versions[D_old]

\* A missing history file was created with one entry.
C19_WitnessMissing ==
  /\ top = "twice" /\ run = 1 /\ pc = "publish_manifest"
  /\ ~histAtCall["stable"].exists
  /\ DOMAIN hist["stable"] = {D_new} /\ HistoryFile("stable").exists

\* The paths of the artifacts named by the targets of a manifest that are
\* marked available = false.
UnavailablePaths(channel) ==
  UNION {UNION {{TargetFiles(t, rustup.source)[i][1] :
                   i \in 1..Len(TargetFiles(t, rustup.source))} :
                t \in {u \in p.target : ~u.available}} :
         p \in channel.pkg}

\* C20: a target with available = false contributes no artifact to the file
\* list, whatever its other fields: once the manifest is resolved, no file
\* of the batch is one named by such a target.
C20_UnavailableTargetContributesNothing ==
  (cur \in Channels /\ pc \notin {"dl_manifest", "dl_release", "resolve"})
    => \A i \in 1..Len(files) : files[i].path \notin UnavailablePaths(remote[cur])


\* C21: the file list that the pool of sync_rustup_channel iterates holds
\* each relative path at most once, whatever the manifest (two packages
\* naming the same URL included), so no two workers write the same path.
C21_BatchPathsDistinct ==
  (cur \in Channels /\ pc \notin {"dl_manifest", "dl_release", "resolve"})
    => \A i, j \in 1..Len(files) : files[i].path = files[j].path => i = j


\* The sweep of clean_old_files is over.
SweepOver == cleanCalled /\ (pc = "clean_join" \/ cleanResult = Ok)

\* C22: a removal that fails in the sweep of clean_old_files is reported
\* with one diagnostic and never makes clean_old_files return an error; when
\* the sweep is over, removal was attempted on every selected file (each one
\* was removed or reported), and one Increment was sent per selected file.
C22_SweepGoesOnAfterFailedRemoval ==
  /\ IsErr(cleanResult) => (unremoved = {} /\ swept = {})
  /\ pc \in {"clean_sweep", "clean_join"} => cleanResult = Pending
  /\ SweepOver =>
       /\ swept = files_to_delete
       /\ \A f \in files_to_delete : Components(f) \in deleted \/ f \in unremoved
       /\ \A f \in unremoved : Components(f) \notin deleted
       /\ Count(chan, "Increment") = Cardinality(files_to_delete)
       /\ Count(chan, "Println") = Cardinality(unremoved)

\* clean_old_files returned Ok after one removal failed and others were
\* made.
C22_Witness ==
  /\ top = "clean" /\ cleanResult = Ok
  /\ Cardinality(unremoved) = 1
  /\ Cardinality(deleted) >= 2
  /\ Count(chan, "Increment") = Cardinality(deleted) + 1


\* C24: clean_old_files removes nothing before its keep-set and its walk of
\* dist are complete: while it loads and walks, and whenever it returns the
\* error of a history load, a read_dir or a strip_prefix, no file has been
\* deleted and the disk is as it was at the call.
C24_NothingDeletedBeforeSweep ==
  top = "clean" =>
    /\ pc \in {"clean_load", "clean_walk"} => (deleted = {} /\ disk = diskAtCall)
    /\ IsErr(cleanResult) =>
         (deleted = {} /\ disk = diskAtCall /\ swept = {} /\ files_to_delete = {})
    /\ deleted # {} => deleted \subseteq {Components(f) : f \in files_to_delete}

\* The walk failed after the keep-set was built, with unkept files on the
\* disk.
C24_Witness ==
  /\ top = "clean" /\ IsErr(cleanResult)
  /\ histRead = Channels /\ files_to_keep # {}
  /\ FilesToDelete(files_to_keep) # {}


\* What the sweep must leave alone: whatever is not an entry of a
\* subdirectory of dist.
OutsideDistSubdirs(p) == ~(Len(p) = 3 /\ p[1] = S_dist)

\* C27: clean_old_files deletes only paths dist/<subdirectory>/<entry>: the
\* files directly under dist/, the history files at the mirror root and
\* everything under rustup/ that were there at the call are still there,
\* whatever the keep-set.
C27_SweepStaysInDistSubdirs ==
  top = "clean" =>
    /\ \A p \in deleted : Len(p) = 3 /\ p[1] = S_dist
    /\ \A p \in diskAtCall : OutsideDistSubdirs(p) => p \in disk
    /\ \A f \in files_to_delete : ~OutsideDistSubdirs(Components(f))

\* A cleanup with an empty keep-set removed files and left the published
\* manifest, the installer and a history file.
C27_Witness ==
  /\ top = "clean" /\ cleanResult = Ok
  /\ files_to_keep = {} /\ Cardinality(deleted) >= 3
  /\ {channel_path("stable"), Sha256Of(channel_path("stable")),
      Components(InitItem(P_lx, FALSE).path), channel_history_path("stable")}
       \subseteq disk
  /\ \E p \in disk : Len(p) = 4 /\ p[1] = S_dist


\* The manifests at the final paths when the stage was called.
PublishedAtCall ==
  [ch \in Channels |-> IF channel_path(ch) \in diskAtCall THEN Some(D_old) ELSE None]

\* The final manifest of the channel is the one that was there at the call.
ManifestKept(ch) ==
  /\ published[ch] = PublishedAtCall[ch]
  /\ channel_path(ch) \in disk <=> channel_path(ch) \in diskAtCall

\* C23, the states: a stage that returned after a batch with failures, or
\* after a batch without failures and with the history file not rewritten,
\* returned an error and left the final manifest as it was.
C23_State ==
  (top = "stage" /\ cur \in Channels /\ pc = "done" /\ Logged(cur)) =>
    /\ LogOf(cur).errors > 0 => (ManifestKept(cur) /\ IsErr(result[cur]))
    /\ HistoryFile(cur) = histAtCall[cur] => (ManifestKept(cur) /\ IsErr(result[cur]))

\* C23, the steps: the manifest at a final path changes only by the rename
\* in the stage of its channel, after a batch that counted no failure and
\* with the history file holding the batch's paths under the release date.
C23_Step ==
  (published' # published \/ \E ch \in Channels :
                               channel_path(ch) \in disk' /\ channel_path(ch) \notin disk) =>
    /\ pc = "publish_manifest" /\ cur \in Channels
    /\ Logged(cur) /\ LogOf(cur).errors = 0 /\ LogOf(cur).failed = 0
    /\ HistoryFile(cur).exists /\ date \in DOMAIN hist[cur]
    /\ hist[cur][date] = [i \in 1..Len(files) |-> files[i].path]
    /\ channel_part_path(cur) \in disk /\ channel_part_path(cur) \notin disk'
    /\ \A ch \in Channels \ {cur} :
         /\ published'[ch] = published[ch]
         /\ channel_path(ch) \in disk' <=> channel_path(ch) \in disk

\* C23: in sync_rustup_channel the manifest is renamed from its .part path to
\* its final path only after a batch without failures and after the history
\* entry was persisted; after a failed batch, or a failure to persist the
\* history, the final manifest is unchanged and the stage returns an error.
C23_PublishAfterHistory == [](C23_State) /\ [][C23_Step]_vars

\* A stage replaced the manifest of an earlier release after recording the
\* batch.
C23_Witness ==
  /\ top = "stage" /\ cur \in Channels /\ pc = "done" /\ result[cur] = Ok
  /\ PublishedAtCall[cur] = Some(D_old) /\ published[cur] = Some(D_new)
  /\ LogOf(cur).items = 2
  /\ channel_part_path(cur) \notin disk

\* A stage whose batch had a failure returned with the downloaded manifest
\* still at its .part path.
C23_WitnessFailed ==
  /\ top = "stage" /\ cur \in Channels /\ pc = "done"
  /\ Logged(cur) /\ LogOf(cur).errors > 0
  /\ published[cur] = Some(D_old) /\ channel_part_path(cur) \in disk


\* The channel's stage returned the error of its manifest or release
\* download, or of reading and parsing the manifest.
FailedEarly(ch) == result[ch].tag \in {"Download", "Parse"}

\* The artifacts the manifest served for a channel names.
ManifestPaths(ch) ==
  UNION {{Components(fs[i][1]) : i \in 1..Len(fs)} :
           fs \in rustup_download_list(remote[ch], rustup.source)}

\* C25, the states: after such a return no batch of the channel was run, no
\* artifact of its manifest is on disk, its history has no entry for the
\* release, the final manifest is not the downloaded one, the failure flag
\* is set, and clean_old_files is not called.
C25_State ==
  \A ch \in Channels :
    FailedEarly(ch) =>
      /\ ~Logged(ch)
      /\ ManifestPaths(ch) \cap disk = {}
      /\ remote[ch].date \notin DOMAIN hist[ch]
      /\ published[ch] # Some(remote[ch].date)
      /\ failures
      /\ ~cleanCalled /\ deleted = {}

\* C25, the steps: the return itself happens before a batch is built, with
\* every worker idle, and leaves the history file as it was at the call, the
\* final manifests and the disk as they are, and the failure flag set.
C25_Step ==
  (cur \in Channels /\ result[cur] = Pending
     /\ result'[cur].tag \in {"Download", "Parse"}) =>
    /\ pc \in {"dl_manifest", "dl_release", "resolve"}
    /\ files = <<>> /\ AllIdle /\ chan = <<>>
    /\ hist' = hist /\ HistoryFile(cur) = histAtCall[cur]
    /\ published' = published /\ disk' = disk
    /\ disk \ {channel_part_path(cur), Sha256Of(channel_part_path(cur)),
               release_part_path(cur)} = diskAtCall
    /\ failures'

\* C25: when the manifest (or stable's release file) cannot be downloaded, or
\* the manifest cannot be read or parsed, sync_rustup_channel returns an error
\* before any worker is started: nothing is fetched, the history and the
\* final manifest are as they were, and sync's failure flag is set, so that
\* retention is skipped.
C25_EarlyErrorBeforeWorkers == [](C25_State) /\ [][C25_Step]_vars

\* sync ended with every keep-count set to 1, the stable and beta stages Ok
\* and nightly's manifest not parsed: retention was skipped for the failure.
C25_Witness ==
  /\ top = "sync" /\ pc = "done"
  /\ result["stable"] = Ok /\ result["beta"] = Ok
  /\ result["nightly"].tag = "Parse"
  /\ \A ch \in Channels : KeepOf(ch) = Some(1)
  /\ GateNow = "skip_failures" /\ ~cleanCalled


\* The paths the manifest names that pass the configured filters.
FilteredPaths(ch) ==
  {p \in UNION {{fs[i][1] : i \in 1..Len(fs)} :
                  fs \in rustup_download_list(remote[ch], rustup.source)} :
     /\ IsSome(rustup.target_platform) => Contains(p, Unwrap(rustup.target_platform))
     /\ IsSome(rustup.target_extension) => EndsWith(p, Unwrap(rustup.target_extension))}

\* The paths the release's entry held at the call and holds no more.
DroppedPaths(ch) ==
  IF remote[ch].date \in DOMAIN histAtCall[ch].versions
    THEN Range(histAtCall[ch].versions[remote[ch].date]) \ Range(hist[ch][remote[ch].date])
    ELSE {}

\* C26: once add_to_channel_history has returned, the history entry of the
\* release date is the path list of the batch, and after an Ok stage it holds
\* the manifest's paths that pass the platform and extension filters and no
\* other; after a second Ok stage for the same date under a narrower filter
\* the paths the filter dropped are in the entry no more, nor in the
\* keep-set clean_old_files builds from the histories.
C26_HistoryEntryIsBatch ==
  top = "narrow" =>
    /\ pc \in {"publish_manifest", "publish_release"} =>
         hist[cur][date] = [i \in 1..Len(files) |-> files[i].path]
    /\ (pc = "done" /\ result[cur] = Ok) =>
         /\ remote[cur].date \in DOMAIN hist[cur]
         /\ Range(hist[cur][remote[cur].date]) = FilteredPaths(cur)
         /\ Len(hist[cur][remote[cur].date]) = LogOf(cur).items
         /\ DroppedPaths(cur) \cap FilteredPaths(cur) = {}
         /\ DroppedPaths(cur) \cap
              FilesToKeep([ch \in Channels |-> Some(MaxKeepClean)]) = {}

\* A second run under a narrower filter replaced an entry of two paths by one
\* of a single path; the dropped file is still on disk and not in the
\* keep-set.
C26_Witness ==
  /\ top = "narrow" /\ run = 2 /\ pc = "done" /\ result[cur] = Ok
  /\ Len(histAtCall[cur].versions[D_new]) = 2
  /\ Len(hist[cur][D_new]) = 1
  /\ \E p \in DroppedPaths(cur) :
        /\ Components(p) \in disk
        /\ p \notin FilesToKeep([ch \in Channels |-> Some(MaxKeepClean)])
  /\ Range(hist[cur][D_new]) \subseteq FilesToKeep([ch \in Channels |-> Some(MaxKeepClean)])

====
